---- MODULE Spec2Model ----
(***************************************************************************)
(* Shadow Repository Checkpoint Engine (work-checkpoints).                 *)
(*                                                                         *)
(* The model covers the editor engine (ShadowGitService), its retry        *)
(* wrapper, the three overlay files, and the lock handling of the chat     *)
(* hook (save-checkpoint.sh).  git itself is the external driver: its      *)
(* add / commit / log / clean / reset are modelled by their documented     *)
(* effect on the index, the commit graph and the bound working tree.       *)
(***************************************************************************)
EXTENDS Integers, Sequences, FiniteSets, TLC

(***************************************************************************)
(* Bounds of the model.                                                    *)
(***************************************************************************)
MaxCommits == 3
MaxLockAge == 90
AgeStep == 30
MaxDay == 6
YearLen == 4

(***************************************************************************)
(* Program constants.                                                      *)
(***************************************************************************)
DefaultMaxRetries == 3
DefaultDelayMs == 100
ListWindow == 100
StaleLockSeconds == 60
HookMaxAttempts == 3
HookMaxPolls == 6

(***************************************************************************)
(* The universe of files, contents, ids and names the inputs are drawn     *)
(* from.                                                                   *)
(***************************************************************************)
Absent == "absent"
Files == {"a.ts", ".env"}
Contents == {"v1", "v2"}
FileStates == Contents \cup {Absent}
EmptyTree == [f \in Files |-> Absent]
OverlayIds == {1, 2}

VARIABLES
  repoExists,     \* <shadowRepoPath>/.git exists
  exclude,        \* patterns in .git/info/exclude
  commits,        \* the commit objects of the shadow repository, by id
  head,           \* commit the current branch points at (0: unborn)
  index,          \* the staging area
  worktree,       \* the bound project working tree
  deletedFile,    \* .deleted
  renamedFile,    \* .renamed
  favoritesFile,  \* .favorites
  lockPresent,    \* .git/index.lock exists
  lockAge,        \* its age in seconds
  last,           \* outcome of the engine operation that has just returned
  retryIn,        \* inputs of a stand-alone run of the retry wrapper
  retryOut,       \* its outcome
  hook,           \* the chat hook process
  coreWorktree,   \* core.worktree of the shadow repository
  ignorePatterns, \* the configured work-checkpoints.ignorePatterns
  worktreeB,      \* the working tree of a second project root
  calls,          \* the calls in flight, by engine instance
  service         \* the AutoCleanupService: its timer field and the live intervals

vars == <<repoExists, exclude, commits, head, index, worktree, deletedFile,
          renamedFile, favoritesFile, lockPresent, lockAge, last, retryIn,
          retryOut, hook, coreWorktree, ignorePatterns, worktreeB, calls,
          service>>

gitVars == <<repoExists, exclude, commits, head, index, worktree>>
overlayVars == <<deletedFile, renamedFile, favoritesFile>>
lockVars == <<lockPresent, lockAge>>
retryVars == <<retryIn, retryOut>>
engineVars == <<coreWorktree, ignorePatterns, worktreeB, calls, service>>

\* no timer set and no interval live; stopped: stop() has returned and start()
\* has not been called since
NoService == [timer |-> 0, live |-> {}, started |-> 0, stopped |-> FALSE, callbacks |-> 0]

\* the project roots of two engine instances, and core.worktree not set
RootA == "/path/to/repo1"
RootB == "/path/to/repo2"
Unset == "(unset)"

\* the engine instances that share the shadow repository, and an instance
\* with no call in flight
Instances == {"A", "B"}
IdleCall == [pc |-> "idle", op |-> "", arg |-> 0, read |-> <<>>, todo |-> <<>>, made |-> 0]
NoCalls == [i \in Instances |-> IdleCall]

(***************************************************************************)
(* Exclude rules (utils/excludes.ts).  A representative pattern of each    *)
(* category of the default list; matching is git's, given here for the     *)
(* files of the universe.                                                  *)
(***************************************************************************)
getDefaultExcludePatterns == <<"node_modules/", "*.png", "*.log", "*.zip", "*.sqlite", ".env">>

GitignoreMatch(p, f) == <<p, f>> \in {<<".env", ".env">>}

IsIgnored(f, rules) == \E i \in DOMAIN rules : GitignoreMatch(rules[i], f)

writeExcludePatterns_DefaultsOnly(additionalPatterns) == getDefaultExcludePatterns

\* patterns = [...getDefaultExcludePatterns(), ...additionalPatterns]
writeExcludePatterns(additionalPatterns) == getDefaultExcludePatterns \o additionalPatterns

(***************************************************************************)
(* Error messages: git's, and the two the engine raises itself.            *)
(***************************************************************************)
LockErrorMessage == "fatal: Unable to create '.git/index.lock': File exists. Another git process seems to be running"
BadRevisionMessage == "fatal: ambiguous argument: unknown revision or path not in the working tree"
RetriesExhaustedMessage == "Git operation failed after retries"
NoChangesMessage == "No changes to save"
NothingToCommitMessage == "nothing to commit, working tree clean"

(***************************************************************************)
(* The external driver: git's effect on index, commits and working tree.   *)
(***************************************************************************)
CommitIds == 1..Len(commits)

TreeOf(id) == commits[id].tree

HeadTree == IF head = 0 THEN EmptyTree ELSE TreeOf(head)

\* git add . : stage every non-ignored file and every change of a tracked file
GitAdd(idx, wt, rules) ==
  [f \in Files |-> IF idx[f] # Absent \/ ~IsIgnored(f, rules) THEN wt[f] ELSE Absent]

GitStaged_AlwaysStaged(idx) == Files

\* git status: the staged paths (index differs from HEAD)
GitStaged(idx) == {f \in Files : idx[f] # HeadTree[f]}

\* git commit: refuses when the index equals HEAD
GitCommitOutcome(idx) ==
  IF idx = HeadTree THEN NothingToCommitMessage ELSE "ok"

GitClean_Skipped(idx, wt, rules) == wt

\* git clean -f -d : remove untracked files that are not ignored
GitClean(idx, wt, rules) ==
  [f \in Files |-> IF idx[f] = Absent /\ ~IsIgnored(f, rules) THEN Absent ELSE wt[f]]

\* git reset --hard <id> : tracked paths follow the target tree, untracked stay
GitResetHardTree(idx, wt, target) ==
  [f \in Files |-> IF idx[f] # Absent \/ target[f] # Absent THEN target[f] ELSE wt[f]]

\* git log from HEAD, newest first
RECURSIVE LogFrom(_)
LogFrom(c) == IF c = 0 THEN <<>> ELSE <<c>> \o LogFrom(commits[c].parent)

Take(s, n) == IF Len(s) <= n THEN s ELSE SubSeq(s, 1, n)

GitLog(maxCount) == Take(LogFrom(head), maxCount)

(***************************************************************************)
(* retryGitOperation (shadowGitService.ts 80-107).  outcomes[i] is what    *)
(* the wrapped operation does on its i-th invocation: "ok", or the message *)
(* of the error it throws.                                                 *)
(***************************************************************************)

Outcomes == {"ok", LockErrorMessage, BadRevisionMessage}

isLockError_Any(errorMessage) == TRUE

\* errorMessage.includes('index.lock') || ... || includes('remove the file manually')
isLockError(errorMessage) == errorMessage \in {LockErrorMessage}

RECURSIVE RetryLoop(_, _, _, _, _, _)
RetryLoop(outcomes, maxRetries, delayMs, attempt, removals, delays) ==
  IF attempt >= maxRetries
  THEN [status |-> "threw", value |-> 0, error |-> RetriesExhaustedMessage, errorAttempt |-> 0,
        invocations |-> attempt, lockRemovals |-> removals, delays |-> delays]
  ELSE IF outcomes[attempt + 1] = "ok"
  THEN [status |-> "returned", value |-> attempt + 1, error |-> "", errorAttempt |-> 0,
        invocations |-> attempt + 1, lockRemovals |-> removals, delays |-> delays]
  ELSE IF isLockError(outcomes[attempt + 1]) /\ attempt < maxRetries - 1
  THEN RetryLoop(outcomes, maxRetries, delayMs, attempt + 1, removals + 1,
                 Append(delays, delayMs * (attempt + 1)))
  ELSE [status |-> "threw", value |-> 0, error |-> outcomes[attempt + 1],
        errorAttempt |-> attempt + 1, invocations |-> attempt + 1,
        lockRemovals |-> removals, delays |-> delays]

retryGitOperation_OneAttemptLess(outcomes, maxRetries, delayMs) ==
  RetryLoop(outcomes, maxRetries - 1, delayMs, 0, 0, <<>>)

retryGitOperation(outcomes, maxRetries, delayMs) ==
  RetryLoop(outcomes, maxRetries, delayMs, 0, 0, <<>>)

\* the outcomes of a mutating git command under lock contention: a concurrent
\* git process holds index.lock during the first `locked` invocations
UnderContention(locked, otherwise) ==
  [i \in 1..DefaultMaxRetries |-> IF i <= locked THEN LockErrorMessage ELSE otherwise]

ContentionInputs == 0..DefaultMaxRetries

(***************************************************************************)
(* Overlay files.  A file is absent or holds a sequence of lines.          *)
(***************************************************************************)
NoFile == [exists |-> FALSE, lines |-> <<>>]

\* the empty string between two newlines, which filter(Boolean) drops
EmptyLine == 0

Range(s) == {s[i] : i \in DOMAIN s}

Reverse(s) == [i \in DOMAIN s |-> s[Len(s) + 1 - i]]

\* content.split('\n').filter(Boolean) into a Set: insertion order, no duplicates
RECURSIVE Dedup(_)
Dedup(s) ==
  IF s = <<>> THEN <<>>
  ELSE LET front == Dedup(SubSeq(s, 1, Len(s) - 1))
           x == s[Len(s)]
       IN IF x \in Range(front) THEN front ELSE Append(front, x)

ReadIdSet(file) ==
  IF file.exists THEN Dedup(SelectSeq(file.lines, LAMBDA x : x # EmptyLine)) ELSE <<>>

getDeletedIds == ReadIdSet(deletedFile)

getFavoriteIds == ReadIdSet(favoritesFile)

addDeletedId_Append(id) ==
  [exists |-> TRUE, lines |-> Append(getDeletedIds, id)]

\* deletedIds.add(id); writeFile([...deletedIds].join('\n'))
AddIdTo(file, id) ==
  LET ids == ReadIdSet(file)
  IN [exists |-> TRUE, lines |-> IF id \in Range(ids) THEN ids ELSE Append(ids, id)]

addDeletedId(id) == AddIdTo(deletedFile, id)

\* the Map read from .renamed: later lines for an id replace the value, the
\* key keeps its first position
RECURSIVE MapFromLines(_)
MapFromLines(s) ==
  IF s = <<>> THEN <<>>
  ELSE LET front == MapFromLines(SubSeq(s, 1, Len(s) - 1))
           e == s[Len(s)]
       IN IF \E i \in DOMAIN front : front[i].id = e.id
          THEN [i \in DOMAIN front |-> IF front[i].id = e.id THEN e ELSE front[i]]
          ELSE Append(front, e)

\* a line without id or without name is skipped: if (id && name)
getRenamedMap ==
  IF renamedFile.exists
  THEN MapFromLines(SelectSeq(renamedFile.lines, LAMBDA e : e.id # EmptyLine /\ e.name # <<>>))
  ELSE <<>>

\* the separators of .renamed inside a name, and a checkpoint id spelled in it
Tab == [t |-> "word", w |-> "\t"]
Newline == [t |-> "word", w |-> "\n"]
IdText(id) == [t |-> "id", w |-> id]

\* String.prototype.split(separator)
RECURSIVE Split(_, _)
Split(line, separator) ==
  IF \E i \in DOMAIN line : line[i] = separator
  THEN LET i == CHOOSE k \in DOMAIN line :
                  line[k] = separator /\ \A j \in 1..(k - 1) : line[j] # separator
       IN <<SubSeq(line, 1, i - 1)>> \o Split(SubSeq(line, i + 1, Len(line)), separator)
  ELSE <<line>>

\* a first field that is the id of no checkpoint
ForeignKey == EmptyLine - 1

\* const [id, name] = line.split('\t') on a line that does not start with an
\* id written by setRenamedMap
ReadRenamedLine(line) ==
  LET parts == Split(line, Tab)
  IN [id |-> IF parts[1] = <<>> THEN EmptyLine
             ELSE IF Len(parts[1]) = 1 /\ parts[1][1].t = "id" THEN parts[1][1].w
             ELSE ForeignKey,
      name |-> IF Len(parts) >= 2 THEN parts[2] ELSE <<>>]

\* the lines `${id}\t${name}` makes in the file, as getRenamedMap will read
\* them: the name ends at its first tab, and each newline starts a line of
\* its own
RenamedLines(entry) ==
  LET segments == Split(entry.name, Newline)
  IN <<[id |-> entry.id, name |-> Split(segments[1], Tab)[1]]>>
       \o [i \in 1..(Len(segments) - 1) |-> ReadRenamedLine(segments[i + 1])]

RECURSIVE JoinRenamedLines(_)
JoinRenamedLines(map) ==
  IF map = <<>> THEN <<>> ELSE RenamedLines(Head(map)) \o JoinRenamedLines(Tail(map))

\* lines.join('\n') of `${id}\t${name}`
setRenamedMap(map) == [exists |-> TRUE, lines |-> JoinRenamedLines(map)]

RenamedGet(map, id) ==
  IF \E i \in DOMAIN map : map[i].id = id
  THEN (CHOOSE e \in Range(map) : e.id = id).name
  ELSE <<>>

(***************************************************************************)
(* Commit messages.  A text is a sequence of lines (the empty line is      *)
(* <<>>), a line a sequence of tokens: words, blanks, the markers the      *)
(* codec looks for, rendered dates and the placeholders of a template.     *)
(***************************************************************************)
W(w) == [t |-> "word", w |-> w]
Space == W(" ")
At == W("@")
TrailerKey == W("Branch:")
ClaudeTag == W("[Claude]")
ClaudeTagAnyCase == {W("[Claude]"), W("[claude]"), W("[CLAUDE]")}
BranchVar == [t |-> "var", w |-> "${branch}"]
DateVar == [t |-> "var", w |-> "${date}"]

DefaultDateFormat == "yyyy/MM/dd HH:mm:ss"
YearlessDateFormat == "MM/dd HH:mm"
DefaultMessageFormat == <<BranchVar, Space, At, Space, DateVar>>

\* a Date is a number of ticks; YearLen of them make a year
Dates == YearLen..MaxDay
NaN == -1
NoYear == -1
\* the year Date.parse gives a date string that has none
ParseDefaultYear == 0

\* formatDate: the fields of the date that the format names
formatDate(date, format) ==
  [t |-> "date",
   yyyy |-> IF format = DefaultDateFormat THEN date \div YearLen ELSE NoYear,
   rest |-> date % YearLen]

ParseDate_NeverValid(line) == NaN

\* new Date(string).getTime(): NaN unless the string is a rendered date
ParseDate(line) ==
  IF Len(line) = 1 /\ line[1].t = "date"
  THEN (IF line[1].yyyy = NoYear THEN ParseDefaultYear ELSE line[1].yyyy) * YearLen
         + line[1].rest
  ELSE NaN

\* String.prototype.replace(pattern, by) with a string pattern: first occurrence
ReplaceFirst(line, var, by) ==
  IF \E i \in DOMAIN line : line[i] = var
  THEN LET i == CHOOSE k \in DOMAIN line :
                  line[k] = var /\ \A j \in 1..(k - 1) : line[j] # var
       IN SubSeq(line, 1, i - 1) \o by \o SubSeq(line, i + 1, Len(line))
  ELSE line

formatDescription(branchName, timestamp, messageFormat, dateFormat) ==
  LET dateStr == <<formatDate(timestamp, IF dateFormat = "" THEN DefaultDateFormat
                                                             ELSE dateFormat)>>
      template == IF messageFormat = <<>> THEN DefaultMessageFormat ELSE messageFormat
  IN ReplaceFirst(ReplaceFirst(template, BranchVar, branchName), DateVar, dateStr)

\* createSnapshot, lines 212-219: description and commit message
SnapshotDescription(branchName, timestamp, messageFormat, dateFormat, customDescription) ==
  IF customDescription # <<>>
  THEN customDescription
  ELSE <<formatDescription(branchName, timestamp, messageFormat, dateFormat)>>

CommitMessage(branchName, timestamp, messageFormat, dateFormat, customDescription) ==
  IF customDescription # <<>>
  THEN customDescription \o << <<>>, <<TrailerKey, Space>> \o branchName >>
  ELSE <<formatDescription(branchName, timestamp, messageFormat, dateFormat)>>

\* git commit -m: leading and trailing empty lines are dropped
RECURSIVE StripLeadingBlank(_)
StripLeadingBlank(text) ==
  IF text # <<>> /\ Head(text) = <<>> THEN StripLeadingBlank(Tail(text)) ELSE text

StripBlank(text) == Reverse(StripLeadingBlank(Reverse(StripLeadingBlank(text))))

RECURSIVE JoinLines(_)
JoinLines(text) ==
  IF text = <<>> THEN <<>>
  ELSE IF Len(text) = 1 THEN text[1]
  ELSE text[1] \o <<Space>> \o JoinLines(Tail(text))

\* end of the first paragraph: index of the first empty line, or Len + 1
FirstBlank(text) ==
  IF \E i \in DOMAIN text : text[i] = <<>>
  THEN CHOOSE i \in DOMAIN text : text[i] = <<>> /\ \A j \in 1..(i - 1) : text[j] # <<>>
  ELSE Len(text) + 1

\* git log %s: the first paragraph on one line; %b: what follows it
GitSubject(text) ==
  LET t == StripBlank(text) IN JoinLines(SubSeq(t, 1, FirstBlank(t) - 1))

GitBody(text) ==
  LET t == StripBlank(text)
  IN StripLeadingBlank(SubSeq(t, FirstBlank(t), Len(t)))

\* the commit object git commit -m <text> makes, as git log reports it
GitCommitObject(parent, tree, text, date) ==
  [parent |-> parent, tree |-> tree, message |-> GitSubject(text), body |-> GitBody(text),
   date |-> date]

\* new Date(): the clock never runs behind the date of a commit already made
Now == {d \in Dates : \A i \in DOMAIN commits : commits[i].date <= d}

Soonest == CHOOSE d \in Now : \A e \in Now : d <= e

MainBranch == <<W("main")>>

(***************************************************************************)
(* parseCommitMetadata (shadowGitService.ts 497-549).                      *)
(***************************************************************************)
\* body.match(/^Branch: (.+)$/m)
IsTrailerLine(line) == Len(line) >= 3 /\ line[1] = TrailerKey /\ line[2] = Space

HasTrailer(body) == \E i \in DOMAIN body : IsTrailerLine(body[i])

\* trailerMatch[1]: the value of the first matching line
TrailerValue(body) ==
  LET i == CHOOSE k \in DOMAIN body :
             IsTrailerLine(body[k]) /\ \A j \in 1..(k - 1) : ~IsTrailerLine(body[j])
  IN SubSeq(body[i], 3, Len(body[i]))

\* message.match(/^(.+) @ (.+)$/): positions of " @ " with text on both sides
OldFormatSplits(message) ==
  {k \in 2..(Len(message) - 3) :
     message[k] = Space /\ message[k + 1] = At /\ message[k + 2] = Space}

IsOldFormat(message) == OldFormatSplits(message) # {}

\* the first group is greedy: the last " @ " splits
OldFormatSplit(message) ==
  CHOOSE k \in OldFormatSplits(message) : \A j \in OldFormatSplits(message) : j <= k

OldFormatLeft(message) == SubSeq(message, 1, OldFormatSplit(message) - 1)

OldFormatRight(message) == SubSeq(message, OldFormatSplit(message) + 3, Len(message))

\* /^\[Claude\]/i.test(originalBranch)
TestClaudePrefix(originalBranch) ==
  originalBranch # <<>> /\ originalBranch[1] \in ClaudeTagAnyCase

RECURSIVE StripLeadingSpace(_)
StripLeadingSpace(line) ==
  IF line # <<>> /\ Head(line) = Space THEN StripLeadingSpace(Tail(line)) ELSE line

\* originalBranch.replace(/^\[Claude\]\s*/, '')
StripClaudePrefix(originalBranch) ==
  IF originalBranch # <<>> /\ originalBranch[1] = ClaudeTag
  THEN StripLeadingSpace(Tail(originalBranch))
  ELSE originalBranch

UnknownBranch == <<W("unknown")>>

\* the display names renameSnapshot is called with
DisplayNames == {<<W("n1")>>}

\* body ? `${message}\n${body}` : message
FullMessage(message, body) == IF body # <<>> THEN <<message>> \o body ELSE <<message>>

parseCommit_OldFormatFirst(commit) ==
  LET message == commit.message
      body == commit.body
  IN IF IsOldFormat(message)
     THEN [branchName |-> StripClaudePrefix(OldFormatLeft(message)),
           timestamp |-> IF ParseDate(OldFormatRight(message)) = NaN
                         THEN commit.date ELSE ParseDate(OldFormatRight(message)),
           description |-> <<message>>,
           fullMessage |-> FullMessage(message, body),
           isClaudeCreated |-> TestClaudePrefix(OldFormatLeft(message))]
     ELSE IF HasTrailer(body)
     THEN [branchName |-> StripClaudePrefix(TrailerValue(body)),
           timestamp |-> commit.date,
           description |-> <<message>>,
           fullMessage |-> FullMessage(message, body),
           isClaudeCreated |-> TestClaudePrefix(TrailerValue(body))]
     ELSE [branchName |-> UnknownBranch,
           timestamp |-> commit.date,
           description |-> <<message>>,
           fullMessage |-> FullMessage(message, body),
           isClaudeCreated |-> FALSE]

\* the decoded fields of a commit (its id apart)
parseCommit(commit) ==
  LET message == commit.message
      body == commit.body
  IN IF HasTrailer(body)
     THEN [branchName |-> StripClaudePrefix(TrailerValue(body)),
           timestamp |-> commit.date,
           description |-> <<message>>,
           fullMessage |-> FullMessage(message, body),
           isClaudeCreated |-> TestClaudePrefix(TrailerValue(body))]
     ELSE IF IsOldFormat(message)
     THEN [branchName |-> StripClaudePrefix(OldFormatLeft(message)),
           timestamp |-> IF ParseDate(OldFormatRight(message)) = NaN
                         THEN commit.date ELSE ParseDate(OldFormatRight(message)),
           description |-> <<message>>,
           fullMessage |-> FullMessage(message, body),
           isClaudeCreated |-> TestClaudePrefix(OldFormatLeft(message))]
     ELSE [branchName |-> UnknownBranch,
           timestamp |-> commit.date,
           description |-> <<message>>,
           fullMessage |-> FullMessage(message, body),
           isClaudeCreated |-> FALSE]

(***************************************************************************)
(* listSnapshots (shadowGitService.ts 238-279).                            *)
(***************************************************************************)
\* the id is the commit hash cut to 7 characters
parseCommitMetadata(id) ==
  LET p == parseCommit(commits[id])
  IN [id |-> id, branchName |-> p.branchName, timestamp |-> p.timestamp,
      description |-> p.description, fullMessage |-> p.fullMessage,
      isClaudeCreated |-> p.isClaudeCreated]

\* the second map of listSnapshots: rename override and favorite flag
ApplyOverlays(snapshot, renamedMap, favoriteIds) ==
  [id |-> snapshot.id, branchName |-> snapshot.branchName,
   timestamp |-> snapshot.timestamp,
   description |-> IF RenamedGet(renamedMap, snapshot.id) # <<>>
                   THEN <<RenamedGet(renamedMap, snapshot.id)>>
                   ELSE snapshot.description,
   fullMessage |-> snapshot.fullMessage,
   isClaudeCreated |-> snapshot.isClaudeCreated,
   isFavorite |-> snapshot.id \in favoriteIds]

SortFavoritesFirst_Unstable(snapshots) ==
  Reverse(SelectSeq(snapshots, LAMBDA s : s.isFavorite))
    \o Reverse(SelectSeq(snapshots, LAMBDA s : ~s.isFavorite))

\* snapshots.sort(favorites first, else 0): Array.prototype.sort is stable, so
\* each group keeps the order it had
SortFavoritesFirst(snapshots) ==
  SelectSeq(snapshots, LAMBDA s : s.isFavorite)
    \o SelectSeq(snapshots, LAMBDA s : ~s.isFavorite)

listSnapshots_NoTombstoneFilter ==
  IF ~repoExists THEN <<>>
  ELSE LET log == GitLog(ListWindow)
           renamedMap == getRenamedMap
           favoriteIds == Range(getFavoriteIds)
           kept == [i \in DOMAIN log |-> parseCommitMetadata(log[i])]
           snapshots == [i \in DOMAIN kept |->
                           ApplyOverlays(kept[i], renamedMap, favoriteIds)]
       IN SortFavoritesFirst(snapshots)

listSnapshots ==
  IF ~repoExists THEN <<>>
  ELSE LET log == GitLog(ListWindow)
           deletedIds == Range(getDeletedIds)
           renamedMap == getRenamedMap
           favoriteIds == Range(getFavoriteIds)
           parsed == [i \in DOMAIN log |-> parseCommitMetadata(log[i])]
           kept == SelectSeq(parsed, LAMBDA s : s.id \notin deletedIds)
           snapshots == [i \in DOMAIN kept |->
                           ApplyOverlays(kept[i], renamedMap, favoriteIds)]
       IN SortFavoritesFirst(snapshots)

ListedIds == {listSnapshots[i].id : i \in DOMAIN listSnapshots}

(***************************************************************************)
(* getSnapshotFiles (shadowGitService.ts 345-381): git ls-tree for the     *)
(* paths, git show for each content.                                       *)
(***************************************************************************)
\* a UTF-8 text with a character outside Latin-1, and the bytes left of it
\* when every character is cut to its low byte
Utf8Text == "v3 (UTF-8 text, non-Latin-1 character)"
LowBytesOfUtf8Text == "v3 (low byte of each character)"

\* simple-git's show gives the output decoded as UTF-8; Buffer.from(result,
\* 'binary') then stores one byte per character, the character's low byte
BufferFromBinary(content) == IF content = Utf8Text THEN LowBytesOfUtf8Text ELSE content

getSnapshotFiles(snapshotId) ==
  LET filePaths == {f \in Files : TreeOf(snapshotId)[f] # Absent}
  IN [f \in filePaths |-> BufferFromBinary(TreeOf(snapshotId)[f])]

(***************************************************************************)
(* Engine operations (ShadowGitService).  Each action is one whole call.   *)
(***************************************************************************)
\* `before` is filled in by the operations whose result depends on what an
\* overlay held when the call started, `args` by those whose arguments the
\* stored state is later compared with
NoResult == [op |-> "none", status |-> "returned", error |-> "", raisedBy |-> "",
             id |-> 0, ret |-> FALSE, unlinked |-> {}, before |-> {}, args |-> <<>>]

Returned(op, id, ret, unlinked) ==
  [op |-> op, status |-> "returned", error |-> "", raisedBy |-> "",
   id |-> id, ret |-> ret, unlinked |-> unlinked, before |-> {}, args |-> <<>>]

Threw(op, error, raisedBy, id, unlinked) ==
  [op |-> op, status |-> "threw", error |-> error, raisedBy |-> raisedBy,
   id |-> id, ret |-> FALSE, unlinked |-> unlinked, before |-> {}, args |-> <<>>]

\* removeLockFile: fs.unlink of the lock markers, whatever their age.
\* The result is the set of ages of the markers it removed.
removeLockFile(present, age) == IF present THEN {age} ELSE {}

\* initializeIfNeeded, existing repository: "clean up any stale lock files first"
InitUnlinked == IF repoExists THEN removeLockFile(lockPresent, lockAge) ELSE {}

\* markers removed by the retry wrapper: they belong to the concurrent process
\* that made the attempt fail, and were created during this call (age 0)
RetryUnlinked(r) == IF r.lockRemovals > 0 THEN removeLockFile(TRUE, 0) ELSE {}

\* the marker of the concurrent process is left when the last attempt failed on it
LockLeftBy(r) == r.status = "threw" /\ isLockError(r.error)

BindWorktree_KeepExisting(currentWorktree, workspacePath) ==
  IF currentWorktree = Unset THEN workspacePath ELSE currentWorktree

\* lines 154-164: core.worktree is set when `config --get` throws (not set)
\* and when its value is not the instance's root; line 179 on a new repository
BindWorktree(currentWorktree, workspacePath) ==
  IF currentWorktree = Unset THEN workspacePath
  ELSE IF currentWorktree # workspacePath THEN workspacePath
  ELSE currentWorktree

\* what the repository held when a call of initializeIfNeeded started
RepositoryBefore ==
  [existed |-> repoExists, coreWorktree |-> coreWorktree, exclude |-> exclude,
   commits |-> commits, head |-> head,
   overlays |-> <<deletedFile, renamedFile, favoritesFile>>]

\* git config and git init take no index.lock: the wrapped operations succeed
initializeIfNeeded(workspacePath) ==
  /\ repoExists' = TRUE
  /\ coreWorktree' = BindWorktree(IF repoExists THEN coreWorktree ELSE Unset, workspacePath)
  /\ exclude' = writeExcludePatterns(ignorePatterns)
  /\ lockPresent' = FALSE
  /\ lockAge' = 0
  /\ last' = [Returned("initializeIfNeeded", 0, FALSE, InitUnlinked)
                EXCEPT !.args = [workspacePath |-> workspacePath],
                       !.before = {RepositoryBefore}]
  /\ UNCHANGED <<commits, head, index, worktree, overlayVars, retryVars, hook,
                 ignorePatterns, service, worktreeB, calls>>

createSnapshot(branchName, messageFormat, dateFormat, customDescription, now, addContention, commitContention) ==
  LET rules == writeExcludePatterns(ignorePatterns)
      timestamp == now
      description == SnapshotDescription(branchName, timestamp, messageFormat, dateFormat,
                                         customDescription)
      commitMessage == CommitMessage(branchName, timestamp, messageFormat, dateFormat,
                                     customDescription)
      rAdd == retryGitOperation(UnderContention(addContention, "ok"),
                                DefaultMaxRetries, DefaultDelayMs)
      staged == GitAdd(index, worktree, rules)
      rCommit == retryGitOperation(UnderContention(commitContention, GitCommitOutcome(staged)),
                                   DefaultMaxRetries, DefaultDelayMs)
      latest == Len(commits) + 1
  IN /\ repoExists' = TRUE
     /\ coreWorktree' = BindWorktree(IF repoExists THEN coreWorktree ELSE Unset, RootA)
     /\ exclude' = rules
     /\ UNCHANGED <<worktree, overlayVars, retryVars, ignorePatterns, service, worktreeB, calls, hook>>
     /\ IF rAdd.status = "threw"
        THEN /\ UNCHANGED <<commits, head, index>>
             /\ lockPresent' = LockLeftBy(rAdd)
             /\ lockAge' = 0
             /\ last' = Threw("createSnapshot", rAdd.error, "retryGitOperation", 0,
                              InitUnlinked \cup RetryUnlinked(rAdd))
        ELSE IF GitStaged(staged) = {}
        THEN /\ UNCHANGED <<commits, head>>
             /\ index' = staged
             /\ lockPresent' = FALSE
             /\ lockAge' = 0
             /\ last' = Threw("createSnapshot", NoChangesMessage, "createSnapshot", 0,
                              InitUnlinked \cup RetryUnlinked(rAdd))
        ELSE IF rCommit.status = "threw"
        THEN /\ UNCHANGED <<commits, head>>
             /\ index' = staged
             /\ lockPresent' = LockLeftBy(rCommit)
             /\ lockAge' = 0
             /\ last' = Threw("createSnapshot", rCommit.error, "retryGitOperation", 0,
                              InitUnlinked \cup RetryUnlinked(rAdd) \cup RetryUnlinked(rCommit))
        ELSE /\ Len(commits) < MaxCommits
             /\ commits' = Append(commits, GitCommitObject(head, staged, commitMessage, now))
             /\ head' = latest
             /\ index' = staged
             /\ lockPresent' = FALSE
             /\ lockAge' = 0
             /\ last' = [Returned("createSnapshot", latest,
                                  [id |-> latest, branchName |-> branchName,
                                   timestamp |-> timestamp, description |-> description],
                                  InitUnlinked \cup RetryUnlinked(rAdd)
                                    \cup RetryUnlinked(rCommit))
                           EXCEPT !.args = [branchName |-> branchName,
                                            customDescription |-> customDescription]]

restoreSnapshot(snapshotId, contention) ==
  LET rules == writeExcludePatterns(ignorePatterns)
      r == retryGitOperation(
             UnderContention(contention,
                             IF snapshotId \in CommitIds THEN "ok" ELSE BadRevisionMessage),
             DefaultMaxRetries, DefaultDelayMs)
      cleaned == GitClean(index, worktree, rules)
  IN /\ repoExists' = TRUE
     /\ coreWorktree' = BindWorktree(IF repoExists THEN coreWorktree ELSE Unset, RootA)
     /\ exclude' = rules
     /\ UNCHANGED <<commits, overlayVars, retryVars, ignorePatterns, service, worktreeB, calls, hook>>
     /\ lockPresent' = LockLeftBy(r)
     /\ lockAge' = 0
     /\ IF r.status = "returned"
        THEN /\ worktree' = GitResetHardTree(index, cleaned, TreeOf(snapshotId))
             /\ index' = TreeOf(snapshotId)
             /\ head' = snapshotId
             /\ last' = Returned("restoreSnapshot", snapshotId, FALSE,
                                 InitUnlinked \cup RetryUnlinked(r))
        ELSE /\ worktree' = cleaned
             /\ UNCHANGED <<index, head>>
             /\ last' = Threw("restoreSnapshot", r.error, "retryGitOperation", snapshotId,
                              InitUnlinked \cup RetryUnlinked(r))

\* fs.writeFile under the shadow repository path fails when the directory is missing
NoDirectoryMessage == "ENOENT: no such file or directory"

deleteSnapshot(snapshotId) ==
  /\ UNCHANGED <<gitVars, lockVars, renamedFile, favoritesFile, retryVars, engineVars, hook>>
  /\ IF repoExists
     THEN /\ deletedFile' = addDeletedId(snapshotId)
          /\ last' = Returned("deleteSnapshot", snapshotId, FALSE, {})
     ELSE /\ UNCHANGED deletedFile
          /\ last' = Threw("deleteSnapshot", NoDirectoryMessage, "fs", snapshotId, {})

renameSnapshot(snapshotId, newName) ==
  LET map == getRenamedMap
      entry == [id |-> snapshotId, name |-> newName]
      updated == IF \E i \in DOMAIN map : map[i].id = snapshotId
                 THEN [i \in DOMAIN map |-> IF map[i].id = snapshotId THEN entry ELSE map[i]]
                 ELSE Append(map, entry)
  IN /\ UNCHANGED <<gitVars, lockVars, deletedFile, favoritesFile, retryVars, engineVars, hook>>
     /\ IF repoExists
        THEN /\ renamedFile' = setRenamedMap(updated)
             /\ last' = [Returned("renameSnapshot", snapshotId, FALSE, {})
                           EXCEPT !.args = [newName |-> newName],
                                  !.before = {s \in Range(listSnapshots) : s.id = snapshotId}]
        ELSE /\ UNCHANGED renamedFile
             /\ last' = Threw("renameSnapshot", NoDirectoryMessage, "fs", snapshotId, {})

addFavoriteId(id) ==
  LET favoriteIds == getFavoriteIds
  IN [exists |-> TRUE,
      lines |-> IF id \in Range(favoriteIds) THEN favoriteIds ELSE Append(favoriteIds, id)]

removeFavoriteId_KeepsId(id) ==
  [exists |-> TRUE, lines |-> getFavoriteIds]

removeFavoriteId(id) ==
  [exists |-> TRUE, lines |-> SelectSeq(getFavoriteIds, LAMBDA x : x # id)]

toggleFavorite(id) ==
  LET wasFavorite == id \in Range(getFavoriteIds)
  IN /\ UNCHANGED <<gitVars, lockVars, deletedFile, renamedFile, retryVars, engineVars, hook>>
     /\ IF repoExists
        THEN /\ favoritesFile' = IF wasFavorite THEN removeFavoriteId(id) ELSE addFavoriteId(id)
             /\ last' = [Returned("toggleFavorite", id, ~wasFavorite, {})
                           EXCEPT !.before = Range(getFavoriteIds)]
        ELSE /\ UNCHANGED favoritesFile
             /\ last' = Threw("toggleFavorite", NoDirectoryMessage, "fs", id, {})

\* the loop of deleteOldSnapshots: one deleteSnapshot per selected checkpoint
RECURSIVE DeleteEach(_, _)
DeleteEach(file, ids) ==
  IF ids = <<>> THEN file ELSE DeleteEach(AddIdTo(file, Head(ids)), Tail(ids))

MaxRetention == 1
RetentionInputs == 0..MaxRetention

deleteOldSnapshots_FavoritesToo(retentionDays, now) ==
  LET snapshots == listSnapshots
      cutoffDate == now - retentionDays
      old == SelectSeq(snapshots, LAMBDA s : s.timestamp < cutoffDate)
  IN /\ UNCHANGED <<gitVars, lockVars, renamedFile, favoritesFile, retryVars, coreWorktree, ignorePatterns, worktreeB, calls, hook>>
     /\ deletedFile' = IF old = <<>> THEN deletedFile
                       ELSE DeleteEach(deletedFile, [i \in DOMAIN old |-> old[i].id])
     /\ last' = [Returned("deleteOldSnapshots", 0, Len(old), {})
                   EXCEPT !.args = [retentionDays |-> retentionDays, now |-> now]]

\* retentionDays and dates are counted in the same unit
deleteOldSnapshots(retentionDays, now) ==
  LET snapshots == listSnapshots
      cutoffDate == now - retentionDays
      old == SelectSeq(snapshots, LAMBDA s : ~s.isFavorite /\ s.timestamp < cutoffDate)
  IN /\ UNCHANGED <<gitVars, lockVars, renamedFile, favoritesFile, retryVars, coreWorktree, ignorePatterns, worktreeB, calls, hook>>
     /\ deletedFile' = IF old = <<>> THEN deletedFile
                       ELSE DeleteEach(deletedFile, [i \in DOMAIN old |-> old[i].id])
     /\ last' = [Returned("deleteOldSnapshots", 0, Len(old), {})
                   EXCEPT !.args = [retentionDays |-> retentionDays, now |-> now]]

(***************************************************************************)
(* The same operations step by step, for calls of several instances in     *)
(* flight at once: one action per await.  Instance A has root A, instance  *)
(* B root B; git works on the tree core.worktree names at that moment.     *)
(***************************************************************************)
Root(i) == IF i = "B" THEN RootB ELSE RootA

BoundTree == IF coreWorktree = RootB THEN worktreeB ELSE worktree

Enter(i, call) == calls' = [calls EXCEPT ![i] = call]

Leave(i) == calls' = [calls EXCEPT ![i] = IdleCall]

\* await this.initializeIfNeeded() at the start of createSnapshot / restoreSnapshot
BeginWithInit(i, op, arg) ==
  /\ calls[i].pc = "idle"
  /\ repoExists' = TRUE
  /\ coreWorktree' = BindWorktree(IF repoExists THEN coreWorktree ELSE Unset, Root(i))
  /\ exclude' = writeExcludePatterns(ignorePatterns)
  /\ Enter(i, [IdleCall EXCEPT !.pc = IF op = "createSnapshot" THEN "add" ELSE "clean",
                               !.op = op, !.arg = arg,
                               !.read = <<[commits |-> commits, head |-> head,
                                           index |-> index]>>])
  /\ last' = NoResult
  /\ UNCHANGED <<commits, head, index, worktree, overlayVars, lockVars, retryVars, hook,
                 ignorePatterns, service, worktreeB>>

BeginCreate(i) == BeginWithInit(i, "createSnapshot", 0)

BeginRestore(i, snapshotId) == BeginWithInit(i, "restoreSnapshot", snapshotId)

\* git add .
StepAdd(i) ==
  /\ calls[i].pc = "add"
  /\ index' = GitAdd(index, BoundTree, exclude)
  /\ Enter(i, [calls[i] EXCEPT !.pc = "status"])
  /\ last' = NoResult
  /\ UNCHANGED <<repoExists, exclude, commits, head, worktree, overlayVars, lockVars,
                 retryVars, hook, coreWorktree, ignorePatterns, service, worktreeB>>

\* git status, and the throw when nothing is staged
StepStatus(i) ==
  /\ calls[i].pc = "status"
  /\ IF GitStaged(index) = {}
     THEN /\ Leave(i)
          /\ last' = [Threw("createSnapshot", NoChangesMessage, "createSnapshot", 0, {})
                        EXCEPT !.args = [instance |-> i, made |-> 0]]
     ELSE /\ Enter(i, [calls[i] EXCEPT !.pc = "commit"])
          /\ last' = NoResult
  /\ UNCHANGED <<gitVars, overlayVars, lockVars, retryVars, hook, coreWorktree,
                 ignorePatterns, service, worktreeB>>

\* git commit of whatever the index holds by now
StepCommit(i, now) ==
  LET latest == Len(commits) + 1
  IN /\ calls[i].pc = "commit"
     /\ IF GitCommitOutcome(index) # "ok"
        THEN /\ Leave(i)
             /\ last' = [Threw("createSnapshot", NothingToCommitMessage, "retryGitOperation",
                               0, {})
                           EXCEPT !.args = [instance |-> i, made |-> 0]]
             /\ UNCHANGED <<commits, head>>
        ELSE /\ Len(commits) < MaxCommits
             /\ commits' = Append(commits,
                                  GitCommitObject(head, index,
                                                  CommitMessage(MainBranch, now, <<>>, "", <<>>),
                                                  now))
             /\ head' = latest
             /\ Enter(i, [calls[i] EXCEPT !.pc = "readback", !.made = latest])
             /\ last' = NoResult
     /\ UNCHANGED <<repoExists, exclude, index, worktree, overlayVars, lockVars, retryVars,
                    hook, coreWorktree, ignorePatterns, service, worktreeB>>

\* git log -1: the id returned is the commit HEAD names at that moment
StepReadBack(i) ==
  /\ calls[i].pc = "readback"
  /\ Leave(i)
  /\ last' = [Returned("createSnapshot", head, FALSE, {})
                EXCEPT !.args = [instance |-> i, made |-> calls[i].made],
                       !.before = Range(calls[i].read)]
  /\ UNCHANGED <<gitVars, overlayVars, lockVars, retryVars, hook, coreWorktree,
                 ignorePatterns, service, worktreeB>>

\* git clean -f -d and git reset --hard, on the tree bound at that moment
StepCleanReset(i) ==
  LET snapshotId == calls[i].arg
      cleaned == GitClean(index, BoundTree, exclude)
      restored == GitResetHardTree(index, cleaned, TreeOf(snapshotId))
  IN /\ calls[i].pc = "clean"
     /\ snapshotId \in CommitIds
     /\ worktree' = IF coreWorktree = RootB THEN worktree ELSE restored
     /\ worktreeB' = IF coreWorktree = RootB THEN restored ELSE worktreeB
     /\ index' = TreeOf(snapshotId)
     /\ head' = snapshotId
     /\ Leave(i)
     /\ last' = [Returned("restoreSnapshot", snapshotId, FALSE, {})
                   EXCEPT !.args = [instance |-> i, made |-> 0]]
     /\ UNCHANGED <<repoExists, exclude, commits, overlayVars, lockVars, retryVars, hook,
                    coreWorktree, ignorePatterns, service>>

\* deleteSnapshot: the read of addDeletedId
BeginDelete(i, snapshotId) ==
  /\ calls[i].pc = "idle"
  /\ repoExists
  /\ Enter(i, [IdleCall EXCEPT !.pc = "write", !.op = "deleteSnapshot", !.arg = snapshotId,
                               !.read = getDeletedIds])
  /\ last' = NoResult
  /\ UNCHANGED <<gitVars, overlayVars, lockVars, retryVars, hook, coreWorktree,
                 ignorePatterns, service, worktreeB>>

BeginCleanup_WithInit(i, retentionDays, now) ==
  LET snapshots == listSnapshots
      cutoffDate == now - retentionDays
      old == SelectSeq(snapshots, LAMBDA s : ~s.isFavorite /\ s.timestamp < cutoffDate)
  IN /\ calls[i].pc = "idle"
     /\ repoExists
     /\ coreWorktree' = BindWorktree(coreWorktree, Root(i))
     /\ IF old = <<>>
        THEN /\ Leave(i)
             /\ last' = [Returned("deleteOldSnapshots", 0, 0, {})
                           EXCEPT !.args = [instance |-> i, made |-> 0]]
        ELSE /\ Enter(i, [IdleCall EXCEPT !.pc = "read", !.op = "deleteOldSnapshots",
                                          !.todo = [k \in DOMAIN old |-> old[k].id]])
             /\ last' = NoResult
     /\ UNCHANGED <<gitVars, overlayVars, lockVars, retryVars, hook, ignorePatterns, service,
                    worktreeB>>

\* deleteOldSnapshots: listSnapshots and the choice of the checkpoints to delete
BeginCleanup(i, retentionDays, now) ==
  LET snapshots == listSnapshots
      cutoffDate == now - retentionDays
      old == SelectSeq(snapshots, LAMBDA s : ~s.isFavorite /\ s.timestamp < cutoffDate)
  IN /\ calls[i].pc = "idle"
     /\ repoExists
     /\ IF old = <<>>
        THEN /\ Leave(i)
             /\ last' = [Returned("deleteOldSnapshots", 0, 0, {})
                           EXCEPT !.args = [instance |-> i, made |-> 0]]
        ELSE /\ Enter(i, [IdleCall EXCEPT !.pc = "read", !.op = "deleteOldSnapshots",
                                          !.todo = [k \in DOMAIN old |-> old[k].id]])
             /\ last' = NoResult
     /\ UNCHANGED <<gitVars, overlayVars, lockVars, retryVars, hook, coreWorktree,
                    ignorePatterns, service, worktreeB>>

\* the next deleteSnapshot of the loop: the read of addDeletedId
StepReadDeleted(i) ==
  /\ calls[i].pc = "read"
  /\ Enter(i, [calls[i] EXCEPT !.pc = "write", !.arg = Head(calls[i].todo),
                               !.todo = Tail(calls[i].todo), !.read = getDeletedIds])
  /\ last' = NoResult
  /\ UNCHANGED <<gitVars, overlayVars, lockVars, retryVars, hook, coreWorktree,
                 ignorePatterns, service, worktreeB>>

\* the write of addDeletedId: the ids read earlier and the new one
StepWriteDeleted(i) ==
  LET ids == calls[i].read
      id == calls[i].arg
      count == calls[i].made + 1
  IN /\ calls[i].pc = "write"
     /\ deletedFile' = [exists |-> TRUE,
                        lines |-> IF id \in Range(ids) THEN ids ELSE Append(ids, id)]
     /\ IF calls[i].op = "deleteOldSnapshots" /\ calls[i].todo # <<>>
        THEN /\ Enter(i, [calls[i] EXCEPT !.pc = "read", !.made = count])
             /\ last' = NoResult
        ELSE /\ Leave(i)
             /\ last' = IF calls[i].op = "deleteOldSnapshots"
                        THEN [Returned("deleteOldSnapshots", 0, count, {})
                                EXCEPT !.args = [instance |-> i, made |-> 0]]
                        ELSE [Returned("deleteSnapshot", id, FALSE, {})
                                EXCEPT !.args = [instance |-> i, made |-> 0]]
     /\ UNCHANGED <<gitVars, renamedFile, favoritesFile, lockVars, retryVars, hook,
                    coreWorktree, ignorePatterns, service, worktreeB>>

\* the user changes work-checkpoints.ignorePatterns
ConfigureIgnorePatterns(patterns) ==
  /\ ignorePatterns # patterns
  /\ ignorePatterns' = patterns
  /\ last' = NoResult
  /\ UNCHANGED <<gitVars, overlayVars, lockVars, retryVars, hook, coreWorktree, worktreeB, service,
                 calls>>

\* core.worktree is removed from the repository's configuration by hand
UnsetWorktree ==
  /\ repoExists
  /\ coreWorktree # Unset
  /\ coreWorktree' = Unset
  /\ last' = NoResult
  /\ UNCHANGED <<gitVars, overlayVars, lockVars, retryVars, hook, ignorePatterns, service, worktreeB,
                 calls>>

(***************************************************************************)
(* AutoCleanupService (services/autoCleanupService.ts): the run at start   *)
(* and every run of the 24-hour timer are one runCleanup each.             *)
(***************************************************************************)
\* config.get('retentionDays', 0): what the user configured
ConfiguredRetention == (0 - 1)..MaxRetention

runCleanup_NoGuard(retentionDays, hasService, now) ==
  deleteOldSnapshots(retentionDays, now)

\* hasService: getShadowGitService() returns an engine instance
runCleanup(retentionDays, hasService, now) ==
  IF retentionDays <= 0 \/ ~hasService
  THEN /\ last' = [Returned("runCleanup", 0, 0, {})
                     EXCEPT !.args = [retentionDays |-> retentionDays, now |-> now]]
       /\ UNCHANGED <<gitVars, overlayVars, lockVars, retryVars, coreWorktree, ignorePatterns, worktreeB, calls, hook>>
  ELSE deleteOldSnapshots(retentionDays, now)

MaxStarts == 3
MaxCallbacks == 2

\* start(): the run at start, then this.timer = setInterval(...); the handle
\* held before is overwritten, its interval stays live
ServiceStart(retentionDays, hasService, now) ==
  LET handle == service.started + 1
  IN /\ service.started < MaxStarts
     /\ runCleanup(retentionDays, hasService, now)
     /\ service' = [service EXCEPT !.started = handle, !.timer = handle,
                                   !.live = @ \cup {handle}, !.stopped = FALSE]

\* stop(): clearInterval(this.timer) and this.timer = null, when a timer is set
ServiceStop ==
  /\ service' = [service EXCEPT !.timer = 0, !.live = @ \ {service.timer},
                                !.stopped = TRUE]
  /\ last' = NoResult
  /\ UNCHANGED <<gitVars, overlayVars, lockVars, retryVars, hook, coreWorktree,
                 ignorePatterns, worktreeB, calls>>

\* 24 hours have passed on a live interval: its callback starts a run
TimerFires(handle, retentionDays, hasService, now) ==
  /\ handle \in service.live
  /\ service.callbacks < MaxCallbacks
  /\ runCleanup(retentionDays, hasService, now)
  /\ service' = [service EXCEPT !.callbacks = @ + 1]

(***************************************************************************)
(* The environment: the user edits the project, a concurrent git process   *)
(* takes and releases index.lock, time passes.                             *)
(***************************************************************************)
WriteFile(f, c) ==
  /\ worktree[f] # c
  /\ worktree' = [worktree EXCEPT ![f] = c]
  /\ last' = NoResult
  /\ UNCHANGED <<repoExists, exclude, commits, head, index, overlayVars, lockVars,
                 retryVars, engineVars, hook>>

LockAcquire ==
  /\ repoExists
  /\ ~lockPresent
  /\ lockPresent' = TRUE
  /\ lockAge' = 0
  /\ last' = NoResult
  /\ UNCHANGED <<gitVars, overlayVars, retryVars, engineVars, hook>>

LockRelease ==
  /\ lockPresent
  /\ lockPresent' = FALSE
  /\ lockAge' = 0
  /\ last' = NoResult
  /\ UNCHANGED <<gitVars, overlayVars, retryVars, engineVars, hook>>

Tick ==
  /\ lockPresent
  /\ lockAge + AgeStep <= MaxLockAge
  /\ lockAge' = lockAge + AgeStep
  /\ last' = NoResult
  /\ UNCHANGED <<gitVars, overlayVars, lockPresent, retryVars, engineVars, hook>>

\* another writer of the shadow repository (the chat hook with its prompt, the
\* OpenCode plugin, an earlier release) stages everything and commits with a
\* message of its own: subject "<left> @ <right>" or "<left>", and a body
ExternalCommit(subjectLeft, subjectRight, body, now) ==
  LET staged == GitAdd(index, worktree, exclude)
      subject == IF subjectRight = <<>> THEN subjectLeft
                 ELSE subjectLeft \o <<Space, At, Space>> \o subjectRight
      text == IF body = <<>> THEN <<subject>> ELSE <<subject, <<>>>> \o body
      latest == Len(commits) + 1
  IN /\ staged # HeadTree
     /\ Len(commits) < MaxCommits
     /\ repoExists' = TRUE
     /\ index' = staged
     /\ commits' = Append(commits, GitCommitObject(head, staged, text, now))
     /\ head' = latest
     /\ last' = [Returned("externalCommit", latest, FALSE, {})
                   EXCEPT !.args = [left |-> subjectLeft, right |-> subjectRight,
                                    body |-> body]]
     /\ UNCHANGED <<exclude, worktree, overlayVars, lockVars, retryVars, engineVars, hook>>

(***************************************************************************)
(* Repository identity (utils/hashUtils.ts, save-checkpoint.sh 88-100, the *)
(* OpenCode plugin's getShadowRepo).  A digest is a sequence of hex        *)
(* digits; Sha256Hex gives the leading digits of the SHA-256 of the        *)
(* strings of the universe.                                                *)
(***************************************************************************)
HexDigits == {"0", "1", "2", "3", "4", "5", "6", "7", "8", "9", "a", "b", "c", "d", "e", "f"}

\* no origin remote: getRemoteOriginUrl returns null, git remote get-url fails
NullUrl == "(no origin remote)"

RemoteUrls == {NullUrl, "", "https://github.com/user/repo.git", "git@github.com:user/repo.git"}

RootPaths == {"/path/to/repo1", "/path/to/repo2"}

Sha256Hex(source) ==
  CASE source = "" -> <<"e", "3", "b", "0", "c", "4", "4", "2", "9", "8", "f", "c", "1", "c", "1", "4">>
    [] source = "https://github.com/user/repo.git" -> <<"c", "b", "1", "f", "d", "f", "7", "9", "c", "8", "3", "e", "1", "6", "3", "4">>
    [] source = "git@github.com:user/repo.git" -> <<"f", "a", "6", "9", "4", "2", "e", "d", "2", "1", "6", "b", "2", "9", "e", "6">>
    [] source = "/path/to/repo1" -> <<"d", "6", "8", "5", "3", "0", "d", "7", "a", "f", "3", "9", "8", "2", "9", "7">>
    [] source = "/path/to/repo2" -> <<"0", "f", "b", "b", "f", "2", "e", "0", "3", "4", "0", "8", "a", "6", "1", "c">>

IdentityLength == 12

\* .digest('hex').substring(0, 12), cut -c1-12
Substring(digest, n) == SubSeq(digest, 1, n)

generateRepoIdentifier_RootOnly(remoteUrl, gitRoot) ==
  Substring(Sha256Hex(gitRoot), IdentityLength)

\* const source = remoteUrl ?? gitRoot
generateRepoIdentifier(remoteUrl, gitRoot) ==
  LET source == IF remoteUrl # NullUrl THEN remoteUrl ELSE gitRoot
  IN Substring(Sha256Hex(source), IdentityLength)

\* the script ends before it has an identity
NoIdentity == <<>>

\* save-checkpoint.sh 93-98 under `trap 'exit 0' EXIT ERR`: a failing
\* REMOTE_URL=$(git remote get-url origin) fires the ERR trap, the script exits
HookRepoId(remoteUrl, workspaceRoot) ==
  IF remoteUrl = NullUrl THEN NoIdentity
  ELSE IF remoteUrl # "" THEN Substring(Sha256Hex(remoteUrl), IdentityLength)
  ELSE Substring(Sha256Hex(workspaceRoot), IdentityLength)

\* getShadowRepo: the trimmed output of git remote get-url, gitRoot when it throws
PluginRepoId(remoteUrl, gitRoot) ==
  LET source == IF remoteUrl = NullUrl THEN gitRoot ELSE remoteUrl
  IN Substring(Sha256Hex(source), IdentityLength)

IdentityOps == {"generateRepoIdentifier", "save-checkpoint.sh", "getShadowRepo"}

\* what the previous identity computation was given and what it gave
PreviousIdentity ==
  IF last.op \in IdentityOps
  THEN {[op |-> last.op, args |-> last.args, ret |-> last.ret]}
  ELSE {}

ResolveIdentity(op, remoteUrl, rootPath, identity) ==
  /\ last' = [Returned(op, 0, identity, {})
                EXCEPT !.args = [remoteUrl |-> remoteUrl, rootPath |-> rootPath],
                       !.before = PreviousIdentity]
  /\ UNCHANGED <<gitVars, overlayVars, lockVars, retryVars, engineVars, hook>>

\* new ShadowGitService(remoteUrl, gitRoot)
EngineIdentity(remoteUrl, gitRoot) ==
  ResolveIdentity("generateRepoIdentifier", remoteUrl, gitRoot,
                  generateRepoIdentifier(remoteUrl, gitRoot))

HookIdentity(remoteUrl, workspaceRoot) ==
  ResolveIdentity("save-checkpoint.sh", remoteUrl, workspaceRoot,
                  HookRepoId(remoteUrl, workspaceRoot))

PluginIdentity(remoteUrl, gitRoot) ==
  ResolveIdentity("getShadowRepo", remoteUrl, gitRoot, PluginRepoId(remoteUrl, gitRoot))

(***************************************************************************)
(* A stand-alone call of the retry wrapper.                                *)
(***************************************************************************)
RunRetry ==
  /\ retryIn.pending
  /\ retryIn' = [retryIn EXCEPT !.pending = FALSE]
  /\ retryOut' = retryGitOperation(retryIn.outcomes, retryIn.maxRetries, retryIn.delayMs)
  /\ UNCHANGED <<gitVars, overlayVars, lockVars, last, hook, engineVars>>

(***************************************************************************)
(* The chat hook (claude-plugin/scripts/save-checkpoint.sh), one step per  *)
(* command between two sleeps, next to the concurrent git process.         *)
(***************************************************************************)
\* TITLE="[Claude] $BRANCH @ $TIMESTAMP", date "+%Y/%m/%d %H:%M:%S"; no prompt
HookBranch == <<W("main")>>

HookMessage(now) ==
  << <<ClaudeTag, Space>> \o HookBranch \o <<Space, At, Space, formatDate(now, DefaultDateFormat)>> >>

\* MESSAGE: the title, an empty line and $USER_PROMPT when there is a prompt
HookMessageWithPrompt(now, prompt) ==
  IF prompt # <<>> THEN HookMessage(now) \o << <<>> >> \o prompt ELSE HookMessage(now)

\* remove_stale_lock: rm -f when the marker is more than 60 seconds old
remove_stale_lock(present, age) == present /\ age > StaleLockSeconds

IdleHook == [pc |-> "idle", fn |-> "", attempt |-> 0, polls |-> 0, ret |-> 0,
             gitRuns |-> 0, unlinked |-> {}, env |-> "", exit |-> {}]

\* what the commands of lines 88-133 meet: all succeed, or one of them fails
HookEnvs == {"ok", "not a repository", "no origin", "mkdir fails", "git init fails", "cd fails"}

\* exit status of the command that fails: git rev-parse and git init 128,
\* git remote get-url 2, mkdir and cd 1
HookCommandStatus(env) ==
  CASE env \in {"not a repository", "git init fails"} -> 128
    [] env = "no origin" -> 2
    [] env \in {"mkdir fails", "cd fails"} -> 1
    [] OTHER -> 0

HookTrap_Propagate(status) == status

\* trap 'exit 0' EXIT ERR: the handler of a failed command and of the exit
HookTrap(status) == 0

\* the status the script ends with: `cd ... || exit 0` asks for 0 itself, any
\* other failed command runs the ERR handler; the EXIT handler runs last
HookExit(env) ==
  IF env \in {"ok", "cd fails"} THEN HookTrap(0)
  ELSE HookTrap(HookTrap(HookCommandStatus(env)))

\* lines 88-133 and the call of safe_git_add on line 134
HookStart(env) ==
  /\ hook.pc \in {"idle", "exited"}
  /\ IF env = "ok"
     THEN /\ repoExists' = TRUE
          /\ coreWorktree' = RootA
          /\ hook' = [pc |-> "remove_stale", fn |-> "add", attempt |-> 1, polls |-> 0,
                      ret |-> 0, gitRuns |-> 0, unlinked |-> {}, env |-> env, exit |-> {}]
     ELSE /\ repoExists' = (repoExists \/ env = "cd fails")
          /\ coreWorktree' = IF env = "cd fails" THEN RootA ELSE coreWorktree
          /\ hook' = [IdleHook EXCEPT !.pc = "exited", !.env = env, !.exit = {HookExit(env)}]
  /\ UNCHANGED <<exclude, commits, head, index, worktree, overlayVars, lockVars, last,
                 retryVars, ignorePatterns, service, worktreeB, calls>>

\* wait_for_git_lock, lines 44-46
HookRemoveStale ==
  /\ hook.pc = "remove_stale"
  /\ IF remove_stale_lock(lockPresent, lockAge)
     THEN /\ lockPresent' = FALSE
          /\ lockAge' = 0
          /\ hook' = [hook EXCEPT !.pc = "poll", !.polls = 0, !.unlinked = @ \cup {lockAge}]
     ELSE /\ UNCHANGED lockVars
          /\ hook' = [hook EXCEPT !.pc = "poll", !.polls = 0]
  /\ UNCHANGED <<gitVars, overlayVars, last, retryVars, engineVars>>

\* wait_for_git_lock, lines 49-53
HookPoll ==
  /\ hook.pc = "poll"
  /\ IF lockPresent /\ hook.polls < HookMaxPolls
     THEN hook' = [hook EXCEPT !.polls = @ + 1]
     ELSE hook' = [hook EXCEPT !.pc = "recheck"]
  /\ UNCHANGED <<gitVars, overlayVars, lockVars, last, retryVars, engineVars>>

\* wait_for_git_lock, lines 55-60, and "|| return 1" of lines 67 and 79
HookRecheck ==
  /\ hook.pc = "recheck"
  /\ IF remove_stale_lock(lockPresent, lockAge)
     THEN /\ lockPresent' = FALSE
          /\ lockAge' = 0
          /\ hook' = [hook EXCEPT !.pc = "git", !.unlinked = @ \cup {lockAge}]
     ELSE /\ UNCHANGED lockVars
          /\ hook' = IF lockPresent
                     THEN [hook EXCEPT !.pc = "returned", !.ret = 1]
                     ELSE [hook EXCEPT !.pc = "git"]
  /\ UNCHANGED <<gitVars, overlayVars, last, retryVars, engineVars>>

HookAfterFailure_Unbounded ==
  [hook EXCEPT !.pc = "remove_stale", !.gitRuns = @ + 1]

\* after a failed git command: sleep 0.3, next round of the for loop or return 1
HookAfterFailure ==
  IF hook.attempt < HookMaxAttempts
  THEN [hook EXCEPT !.pc = "remove_stale", !.attempt = @ + 1, !.gitRuns = @ + 1]
  ELSE [hook EXCEPT !.pc = "returned", !.ret = 1, !.gitRuns = @ + 1]

\* safe_git_add, lines 68-69
HookGitAdd ==
  /\ hook.pc = "git"
  /\ hook.fn = "add"
  /\ IF lockPresent
     THEN /\ hook' = HookAfterFailure
          /\ UNCHANGED index
     ELSE /\ hook' = [hook EXCEPT !.pc = "returned", !.ret = 0, !.gitRuns = @ + 1]
          /\ index' = GitAdd(index, worktree, exclude)
  /\ UNCHANGED <<repoExists, exclude, commits, head, worktree, overlayVars, lockVars,
                 last, retryVars, engineVars>>

DiffCachedQuiet_NeverClean(idx) == FALSE

\* git diff --cached --quiet: status 0 when the index holds no staged change
DiffCachedQuiet(idx) == idx = HeadTree

\* safe_git_commit, lines 80-82
HookGitCommit(now) ==
  /\ hook.pc = "git"
  /\ hook.fn = "commit"
  /\ IF DiffCachedQuiet(index)
     THEN /\ hook' = [hook EXCEPT !.pc = "returned", !.ret = 0]
          /\ UNCHANGED <<commits, head>>
     ELSE IF lockPresent
     THEN /\ hook' = HookAfterFailure
          /\ UNCHANGED <<commits, head>>
     ELSE /\ Len(commits) < MaxCommits
          /\ hook' = [hook EXCEPT !.pc = "returned", !.ret = 0, !.gitRuns = @ + 1]
          /\ commits' = Append(commits, GitCommitObject(head, index, HookMessage(now), now))
          /\ head' = Len(commits) + 1
  /\ UNCHANGED <<repoExists, exclude, index, worktree, overlayVars, lockVars, last, retryVars, engineVars>>

\* lines 134-140: commit only when the add succeeded, then exit 0
HookContinue ==
  /\ hook.pc = "returned"
  /\ hook' = IF hook.fn = "add" /\ hook.ret = 0
             THEN [hook EXCEPT !.pc = "remove_stale", !.fn = "commit", !.attempt = 1,
                               !.polls = 0, !.gitRuns = 0]
             ELSE [IdleHook EXCEPT !.pc = "exited", !.env = hook.env,
                                   !.exit = {HookExit(hook.env)}]
  /\ UNCHANGED <<gitVars, overlayVars, lockVars, last, retryVars, engineVars>>

(***************************************************************************)
(* The OpenCode plugin's chat.message handler: one call, the lock as it is *)
(* during the call.                                                        *)
(***************************************************************************)
OpenCodeTag == W("[OpenCode]")

\* new Date().toLocaleString("ja-JP", ...): a date with its year
toLocaleString(now) == [t |-> "date", yyyy |-> now \div YearLen, rest |-> now % YearLen]

\* title = `[OpenCode] ${branch} @ ${timestamp}`; no prompt text
PluginMessage(now) ==
  << <<OpenCodeTag, Space>> \o HookBranch \o <<Space, At, Space, toLocaleString(now)>> >>

\* what the commands of the handler meet
PluginFailures == {"none", "not a repository", "init fails", "rev-parse fails"}

PluginCatch_Rethrow(outcome) == outcome

\* try { ... } catch { }: the handler returns whatever its body did
PluginCatch(outcome) == "returned"

PluginChatMessage(failure, now) ==
  LET thrown == failure \in {"init fails", "rev-parse fails"}
      skipped == failure = "not a repository"
      staged == GitAdd(index, worktree, exclude)
      \* safeGitAdd: false when the lock outlasts waitForGitLock
      added == ~thrown /\ ~skipped /\ ~lockPresent
      \* safeGitCommit: nothing to do when git diff --cached --quiet succeeds
      committed == added /\ ~DiffCachedQuiet(staged)
      latest == Len(commits) + 1
  IN /\ committed => Len(commits) < MaxCommits
     /\ repoExists' = (repoExists \/ ~(skipped \/ failure = "init fails"))
     /\ coreWorktree' = IF skipped \/ failure = "init fails" THEN coreWorktree ELSE RootA
     /\ index' = IF added THEN staged ELSE index
     /\ commits' = IF committed
                   THEN Append(commits, GitCommitObject(head, staged, PluginMessage(now), now))
                   ELSE commits
     /\ head' = IF committed THEN latest ELSE head
     /\ last' = [Returned("chat.message", IF committed THEN latest ELSE 0, FALSE, {})
                   EXCEPT !.status = PluginCatch(IF thrown THEN "threw" ELSE "returned"),
                          !.args = [failure |-> failure]]
     /\ UNCHANGED <<exclude, worktree, overlayVars, lockVars, retryVars, ignorePatterns, service,
                    worktreeB, calls, hook>>

\* one run of the hook script with a prompt and no lock in its way
HookCheckpoint(prompt, now) ==
  LET staged == GitAdd(index, worktree, exclude)
      latest == Len(commits) + 1
  IN /\ ~lockPresent
     /\ hook.pc \in {"idle", "exited"}
     /\ ~DiffCachedQuiet(staged)
     /\ Len(commits) < MaxCommits
     /\ repoExists' = TRUE
     /\ coreWorktree' = RootA
     /\ index' = staged
     /\ commits' = Append(commits,
                          GitCommitObject(head, staged, HookMessageWithPrompt(now, prompt),
                                          now))
     /\ head' = latest
     /\ last' = [Returned("save-checkpoint", latest, FALSE, {})
                   EXCEPT !.args = [prompt |-> prompt]]
     /\ UNCHANGED <<exclude, worktree, overlayVars, lockVars, retryVars, ignorePatterns, service,
                    worktreeB, calls, hook>>

\* git checkout <id> -- . : every path of the commit's tree is written to the
\* index and the working tree; paths the tree does not hold are left alone
GitCheckoutPaths(files, target) ==
  [f \in Files |-> IF target[f] # Absent THEN target[f] ELSE files[f]]

PluginRestoreFailedMessage == "Error: Failed to restore checkpoint"

\* restore-checkpoint.sh <id> and the OpenCode restore_checkpoint tool:
\* rev-parse --verify, then git checkout <id> -- . (which fails when the
\* pathspec matches no path of the tree)
PluginRestore(checkpointId) ==
  /\ repoExists
  /\ IF checkpointId \notin CommitIds
     THEN /\ last' = Threw("restore-checkpoint", BadRevisionMessage, "rev-parse",
                          checkpointId, {})
          /\ UNCHANGED <<index, worktree>>
     ELSE IF TreeOf(checkpointId) = EmptyTree
     THEN /\ last' = Threw("restore-checkpoint", PluginRestoreFailedMessage, "checkout",
                          checkpointId, {})
          /\ UNCHANGED <<index, worktree>>
     ELSE /\ index' = GitCheckoutPaths(index, TreeOf(checkpointId))
          /\ worktree' = GitCheckoutPaths(worktree, TreeOf(checkpointId))
          /\ last' = Returned("restore-checkpoint", checkpointId, FALSE, {})
  /\ UNCHANGED <<repoExists, exclude, commits, head, overlayVars, lockVars, retryVars,
                 engineVars, hook>>

(***************************************************************************)
(* Specifications.                                                         *)
(***************************************************************************)
NoRetry == [pending |-> FALSE, outcomes |-> <<>>, maxRetries |-> 0, delayMs |-> 0]

NoRetryOut == [status |-> "none", value |-> 0, error |-> "", errorAttempt |-> 0,
               invocations |-> 0, lockRemovals |-> 0, delays |-> <<>>]

Init ==
  /\ repoExists = FALSE
  /\ exclude = <<>>
  /\ commits = <<>>
  /\ head = 0
  /\ index = EmptyTree
  /\ worktree = [f \in Files |-> IF f = "a.ts" THEN "v1" ELSE Absent]
  /\ deletedFile = NoFile
  /\ renamedFile = NoFile
  /\ favoritesFile = NoFile
  /\ lockPresent = FALSE
  /\ lockAge = 0
  /\ last = NoResult
  /\ retryIn = NoRetry
  /\ retryOut = NoRetryOut
  /\ hook = IdleHook
  /\ coreWorktree = Unset
  /\ ignorePatterns = <<>>
  /\ service = NoService
  /\ worktreeB = EmptyTree
  /\ calls = NoCalls

\* the engine with its overlays: one instance, calls in sequence
Next ==
  \/ createSnapshot(MainBranch, <<>>, "", <<>>, Soonest, 0, 0)
  \/ \E id \in 1..MaxCommits : restoreSnapshot(id, 0)
  \/ \E id \in OverlayIds : deleteSnapshot(id)
  \/ \E id \in OverlayIds, n \in DisplayNames : renameSnapshot(id, n)
  \/ \E id \in OverlayIds : toggleFavorite(id)
  \/ \E c \in Contents : WriteFile("a.ts", c)

Spec == Init /\ [][Next]_vars

\* the engine on a working tree with ignored files, next to a concurrent git process
NextTree ==
  \/ \E a \in ContentionInputs, c \in ContentionInputs :
       createSnapshot(MainBranch, <<>>, "", <<>>, Soonest, a, c)
  \/ \E id \in 1..MaxCommits, c \in ContentionInputs : restoreSnapshot(id, c)
  \/ \E c \in FileStates : WriteFile("a.ts", c)
  \/ \E c \in {"v1", Absent} : WriteFile(".env", c)
  \/ LockAcquire
  \/ LockRelease

SpecTree == Init /\ [][NextTree]_vars

\* retention cleanup over checkpoints of several ages
NextCleanup ==
  \/ \E now \in Now : createSnapshot(MainBranch, <<>>, "", <<>>, now, 0, 0)
  \/ \E id \in OverlayIds : toggleFavorite(id)
  \/ \E r \in RetentionInputs, now \in Now : deleteOldSnapshots(r, now) /\ UNCHANGED service
  \/ \E c \in Contents : WriteFile("a.ts", c)

SpecCleanup == Init /\ [][NextCleanup]_vars

\* the cleanup service over checkpoints of several ages
NextAutoCleanup ==
  \/ \E now \in Now : createSnapshot(MainBranch, <<>>, "", <<>>, now, 0, 0)
  \/ \E id \in OverlayIds : toggleFavorite(id)
  \/ \E r \in ConfiguredRetention, s \in BOOLEAN, now \in Now : runCleanup(r, s, now) /\ UNCHANGED service
  \/ \E c \in Contents : WriteFile("a.ts", c)

SpecAutoCleanup == Init /\ [][NextAutoCleanup]_vars

\* checkpoints of text files, tombstoned and then read back by id
TextContents == Contents \cup {Utf8Text}

NextRetrieve ==
  \/ createSnapshot(MainBranch, <<>>, "", <<>>, Soonest, 0, 0)
  \/ \E id \in OverlayIds : deleteSnapshot(id)
  \/ \E id \in OverlayIds, n \in DisplayNames : renameSnapshot(id, n)
  \/ \E id \in OverlayIds : toggleFavorite(id)
  \/ \E r \in RetentionInputs : deleteOldSnapshots(r, Soonest) /\ UNCHANGED service
  \/ \E c \in TextContents : WriteFile("a.ts", c)

SpecRetrieve == Init /\ [][NextRetrieve]_vars

\* renames with names of one word and names holding a tab or a newline
RenameInputs ==
  { <<W("n1")>>, <<W("n2")>>, <<W("n1"), Tab, W("x")>>, <<W("n1"), Newline, W("x")>>,
    <<W("n1"), Newline, IdText(2), Tab, W("x")>> }

NextRename ==
  \/ createSnapshot(MainBranch, <<>>, "", <<>>, Soonest, 0, 0)
  \/ \E id \in OverlayIds, n \in RenameInputs : renameSnapshot(id, n)
  \/ \E id \in OverlayIds : deleteSnapshot(id)
  \/ \E c \in Contents : WriteFile("a.ts", c)

SpecRename == Init /\ [][NextRename]_vars

\* the lifecycle of the repository: instances of two roots, configuration changes
IgnoreConfigs == {<<>>, <<"*.tmp">>, <<"*.tmp", "dist/">>}

NextLifecycle ==
  \/ \E r \in {RootA, RootB} : initializeIfNeeded(r)
  \/ createSnapshot(MainBranch, <<>>, "", <<>>, Soonest, 0, 0)
  \/ \E id \in 1..MaxCommits : restoreSnapshot(id, 0)
  \/ \E id \in OverlayIds : deleteSnapshot(id)
  \/ \E p \in IgnoreConfigs : ConfigureIgnorePatterns(p)
  \/ UnsetWorktree
  \/ \E c \in Contents : WriteFile("a.ts", c)
  \/ LockAcquire

SpecLifecycle == Init /\ [][NextLifecycle]_vars

\* two instances on one shadow repository: A creates checkpoints while B runs
\* the retention cleanup
NextShared ==
  \/ BeginCreate("A")
  \/ StepAdd("A")
  \/ StepStatus("A")
  \/ StepCommit("A", Soonest)
  \/ StepReadBack("A")
  \/ \E r \in RetentionInputs, now \in Now : BeginCleanup("B", r, now)
  \/ StepReadDeleted("B")
  \/ StepWriteDeleted("B")
  \/ \E c \in Contents : calls["A"].pc = "idle" /\ WriteFile("a.ts", c)

SpecShared == Init /\ [][NextShared]_vars

\* checkpoints of several ages; two instances delete and B runs the retention
\* cleanup while favorites are toggled
NextTombstones ==
  \/ (calls = NoCalls /\ createSnapshot(MainBranch, <<>>, "", <<>>, Soonest, 0, 0))
  \/ \E c \in Contents : calls = NoCalls /\ WriteFile("a.ts", c)
  \/ \E i \in Instances, id \in OverlayIds : BeginDelete(i, id)
  \/ \E r \in RetentionInputs, now \in Now : BeginCleanup("B", r, now)
  \/ StepReadDeleted("B")
  \/ \E i \in Instances : StepWriteDeleted(i)
  \/ \E id \in OverlayIds : toggleFavorite(id)

SpecTombstones == Init /\ [][NextTombstones]_vars

\* the codec: the first commit of a repository, made by createSnapshot or by
\* another writer, over a family of branch names, descriptions and messages
TagPrefixes == {<<>>, <<ClaudeTag, Space>>, <<ClaudeTag>>, <<W("[claude]"), Space>>,
                <<W("[CLAUDE]"), Space>>}

PlainNames == {<<W("main")>>, <<W("a"), Space, At, Space, W("b")>>}

BranchNames == {MainBranch, <<ClaudeTag, Space, W("main")>>, <<ClaudeTag, W("main")>>}

CustomDescriptions ==
  { << <<W("fix")>> >>,
    << <<W("fix"), Space, W("bug")>> >>,
    << <<W("a"), Space, At, Space, W("b")>> >>,
    << <<W("fix")>>, <<W("more")>> >>,
    << <<W("fix")>>, <<>>, <<W("more")>> >> }

SubjectLefts == {prefix \o name : prefix \in TagPrefixes, name \in PlainNames}

SubjectRights == {<<formatDate(d, DefaultDateFormat)>> : d \in Dates}
                   \cup {<<W("yesterday")>>, <<>>}

BranchLine(value) == <<TrailerKey, Space>> \o value

Bodies ==
  { <<>>,
    << <<W("prompt")>> >>,
    << <<TrailerKey, Space>> >>,
    << BranchLine(<<W("main")>>) >>,
    << BranchLine(<<ClaudeTag, Space, W("main")>>) >>,
    << BranchLine(<<W("[claude]"), Space, W("main")>>) >>,
    << <<W("prompt")>>, BranchLine(<<W("dev")>>) >>,
    << BranchLine(<<W("dev")>>), BranchLine(<<W("main")>>) >> }

NextCodec ==
  \/ \E b \in BranchNames, d \in CustomDescriptions \cup {<<>>}, now \in Now :
       commits = <<>> /\ createSnapshot(b, <<>>, "", d, now, 0, 0)
  \/ \E l \in SubjectLefts, r \in SubjectRights, b \in Bodies, now \in Now :
       commits = <<>> /\ ExternalCommit(l, r, b, now)
  \/ \E c \in Contents : WriteFile("a.ts", c)

SpecCodec == Init /\ [][NextCodec]_vars

\* the identity computed by the engine, the hook and the plugin
NextIdentity ==
  \/ \E u \in RemoteUrls, r \in RootPaths : EngineIdentity(u, r)
  \/ \E u \in RemoteUrls, r \in RootPaths : HookIdentity(u, r)
  \/ \E u \in RemoteUrls, r \in RootPaths : PluginIdentity(u, r)

SpecIdentity == Init /\ [][NextIdentity]_vars

\* the overlay operations from every content the overlay files can have
MaxLines == 2

BoundedSeqs(S, n) == UNION {[1..k -> S] : k \in 0..n}

IdFiles == {NoFile} \cup {[exists |-> TRUE, lines |-> l] :
                             l \in BoundedSeqs(OverlayIds \cup {EmptyLine}, MaxLines)}

RenameFiles == {NoFile} \cup {[exists |-> TRUE, lines |-> l] :
                                 l \in BoundedSeqs([id : OverlayIds, name : DisplayNames], MaxLines)}

InitOverlay ==
  /\ repoExists \in BOOLEAN
  /\ exclude = <<>>
  /\ commits = <<>>
  /\ head = 0
  /\ index = EmptyTree
  /\ worktree = EmptyTree
  /\ deletedFile \in IdFiles
  /\ renamedFile \in RenameFiles
  /\ favoritesFile \in IdFiles
  /\ lockPresent = FALSE
  /\ lockAge = 0
  /\ last = NoResult
  /\ retryIn = NoRetry
  /\ retryOut = NoRetryOut
  /\ hook = IdleHook
  /\ coreWorktree = Unset
  /\ ignorePatterns = <<>>
  /\ service = NoService
  /\ worktreeB = EmptyTree
  /\ calls = NoCalls

NextOverlay ==
  \/ \E id \in OverlayIds : deleteSnapshot(id)
  \/ \E id \in OverlayIds, n \in DisplayNames : renameSnapshot(id, n)
  \/ \E id \in OverlayIds : toggleFavorite(id)

SpecOverlay == InitOverlay /\ [][NextOverlay]_vars

\* the retry wrapper on every sequence of outcomes of the wrapped operation
InitRetry ==
  /\ repoExists = FALSE
  /\ exclude = <<>>
  /\ commits = <<>>
  /\ head = 0
  /\ index = EmptyTree
  /\ worktree = EmptyTree
  /\ deletedFile = NoFile
  /\ renamedFile = NoFile
  /\ favoritesFile = NoFile
  /\ lockPresent = FALSE
  /\ lockAge = 0
  /\ last = NoResult
  /\ retryIn \in [pending : {TRUE},
                  outcomes : [1..DefaultMaxRetries -> Outcomes],
                  maxRetries : 1..DefaultMaxRetries,
                  delayMs : {DefaultDelayMs}]
  /\ retryOut = NoRetryOut
  /\ hook = IdleHook
  /\ coreWorktree = Unset
  /\ ignorePatterns = <<>>
  /\ service = NoService
  /\ worktreeB = EmptyTree
  /\ calls = NoCalls

NextRetry == RunRetry

SpecRetry == InitRetry /\ [][NextRetry]_vars

\* the chat hook next to a concurrent git process holding and releasing the lock
NextHook ==
  \/ HookStart("ok")
  \/ HookRemoveStale
  \/ HookPoll
  \/ HookRecheck
  \/ HookGitAdd
  \/ HookGitCommit(Soonest)
  \/ HookContinue
  \/ \E c \in Contents : WriteFile("a.ts", c)
  \/ LockAcquire
  \/ LockRelease
  \/ Tick

SpecHook == Init /\ [][NextHook]_vars

\* the automatic checkpoints: the hook script and the plugin's handler
NextAuto ==
  \/ \E env \in HookEnvs : HookStart(env)
  \/ HookRemoveStale
  \/ HookPoll
  \/ HookRecheck
  \/ HookGitAdd
  \/ HookGitCommit(Soonest)
  \/ HookContinue
  \/ \E failure \in PluginFailures : PluginChatMessage(failure, Soonest)
  \/ LockAcquire
  \/ LockRelease
  \/ Tick

SpecAuto == Init /\ [][NextAuto]_vars

(***************************************************************************)
(* Properties.                                                             *)
(***************************************************************************)

\* C1: with no deleteSnapshot so far, every checkpoint createSnapshot ever
\* returned (every commit of the repository) is still returned by
\* listSnapshots, also after restoreSnapshot of an older checkpoint.
C1_ListingAppendOnly ==
  ~deletedFile.exists => \A id \in CommitIds : id \in ListedIds

\* C2: listSnapshots never returns a checkpoint whose id is a line of .deleted,
\* whatever .renamed and .favorites hold.
C2_TombstonedNeverListed ==
  \A i \in DOMAIN listSnapshots : listSnapshots[i].id \notin Range(deletedFile.lines)

C2_Witness ==
  /\ \E id \in Range(deletedFile.lines) : id \in Range(GitLog(ListWindow))
  /\ listSnapshots # <<>>
  /\ favoritesFile.lines # <<>>
  /\ renamedFile.lines # <<>>

C9_OnlyStaleLocksRemoved ==
  \A age \in last.unlinked \cup hook.unlinked : age > StaleLockSeconds

\* the classification of lines 90-95, stated on the messages of the model
LockClassified(message) == message = LockErrorMessage

\* the first invocation of the wrapped operation that does not fail on a lock
\* (maxRetries + 1 when every invocation does)
FirstNonLock(outcomes, maxRetries) ==
  IF \E j \in 1..maxRetries : ~LockClassified(outcomes[j])
  THEN CHOOSE j \in 1..maxRetries :
         /\ ~LockClassified(outcomes[j])
         /\ \A i \in 1..(j - 1) : LockClassified(outcomes[i])
  ELSE maxRetries + 1

\* C5: with maxRetries = 3, an operation that fails on a lock in its first two
\* invocations and succeeds in the third makes the wrapper return the third
\* invocation's result; no error reaches the caller.
C5_ThirdAttemptSucceeds ==
  (/\ ~retryIn.pending
   /\ retryIn.maxRetries = DefaultMaxRetries
   /\ retryIn.outcomes = <<LockErrorMessage, LockErrorMessage, "ok">>)
    => /\ retryOut.status = "returned"
       /\ retryOut.value = 3
       /\ retryOut.invocations = 3
       /\ retryOut.error = ""

C5_Witness ==
  /\ ~retryIn.pending
  /\ retryIn.maxRetries = DefaultMaxRetries
  /\ retryIn.outcomes = <<LockErrorMessage, LockErrorMessage, "ok">>
  /\ retryOut.lockRemovals = 2

\* C7: when the operation fails on a lock in all 3 invocations, the wrapper
\* throws the distinct 'Git operation failed after retries' error and not the
\* lock error of the last invocation.
C7_ExhaustionIsDistinct ==
  (/\ ~retryIn.pending
   /\ retryIn.maxRetries = DefaultMaxRetries
   /\ \A i \in 1..DefaultMaxRetries : retryIn.outcomes[i] = LockErrorMessage)
    => /\ retryOut.status = "threw"
       /\ retryOut.error = RetriesExhaustedMessage
       /\ retryOut.error # LockErrorMessage

\* C8: when an invocation fails with an error that is not lock-classified, the
\* wrapper rethrows that very error without invoking the operation again,
\* removing a lock file or sleeping: after a first invocation failing so, there
\* has been one invocation, no removal and no delay.
C8_NonLockErrorPropagates ==
  LET j == FirstNonLock(retryIn.outcomes, retryIn.maxRetries)
  IN (/\ ~retryIn.pending
      /\ j <= retryIn.maxRetries
      /\ retryIn.outcomes[j] # "ok")
       => /\ retryOut.status = "threw"
          /\ retryOut.error = retryIn.outcomes[j]
          /\ retryOut.errorAttempt = j
          /\ retryOut.invocations = j
          /\ retryOut.lockRemovals = j - 1
          /\ Len(retryOut.delays) = j - 1
          /\ j = 1 => (retryOut.invocations = 1 /\ retryOut.lockRemovals = 0
                       /\ retryOut.delays = <<>>)

C8_Witness ==
  /\ ~retryIn.pending
  /\ retryIn.maxRetries = DefaultMaxRetries
  /\ retryIn.outcomes[1] = BadRevisionMessage
  /\ retryOut.status = "threw"

\* C6: in safe_git_add and safe_git_commit a marker still present at the end of
\* one attempt's bounded wait (6 polls) does not end the retry loop: a failure
\* returned after such a wait is returned from the third attempt only, so a
\* marker that is gone by the third attempt lets git run there.
C6_LockWaitDoesNotEndRetries ==
  (hook.pc = "returned" /\ hook.ret = 1 /\ hook.polls = HookMaxPolls)
    => hook.attempt = HookMaxAttempts

\* C10: a second deleteSnapshot(id) right after the first leaves .deleted as the
\* first call left it.
C10_DeleteIdempotent ==
  (last.op = "deleteSnapshot" /\ last.status = "returned")
    => /\ addDeletedId(last.id) = deletedFile
       /\ last.id \in Range(getDeletedIds)

C10_Witness ==
  /\ last.op = "deleteSnapshot"
  /\ last.status = "returned"
  /\ Len(deletedFile.lines) >= 2

\* C11: toggleFavorite(id) returns true iff id was absent from the favorites
\* before the call and is present after it (and false iff it was present and is
\* absent after it), no other id changes membership, and a second
\* toggleFavorite(id) right after the first returns the opposite boolean and
\* leaves the membership equal to what it was before the first call.
C11_ToggleLaw ==
  [][(last'.op = "toggleFavorite" /\ last'.status = "returned") =>
       LET id == last'.id
           after == Range(getFavoriteIds)'
       IN /\ last'.ret <=> (id \notin last'.before /\ id \in after)
          /\ ~last'.ret <=> (id \in last'.before /\ id \notin after)
          /\ after \ {id} = last'.before \ {id}
          /\ (last.op = "toggleFavorite" /\ last.status = "returned" /\ last.id = id)
               => (last'.ret # last.ret /\ after = last.before)]_vars

\* a toggle that removed a favorite from an overlay holding two
C11_Witness ==
  /\ last.op = "toggleFavorite"
  /\ last.status = "returned"
  /\ ~last.ret
  /\ last.before = OverlayIds
  /\ Range(getFavoriteIds) = OverlayIds \ {last.id}

\* position of a commit in the history as git log gives it (1: newest)
LogPosition(id) == CHOOSE i \in DOMAIN GitLog(ListWindow) : GitLog(ListWindow)[i] = id

\* C12: listSnapshots is a stable partition of the history order: every
\* favorited checkpoint precedes every non-favorited one, and two checkpoints
\* of the same group come in the newest-first order of git log (the one
\* created later first); with no favorites the result is the history order.
C12_StablePartition ==
  LET l == listSnapshots
  IN /\ \A i, j \in DOMAIN l :
          i < j => /\ l[j].isFavorite => l[i].isFavorite
                   /\ l[i].isFavorite = l[j].isFavorite
                        => (LogPosition(l[i].id) < LogPosition(l[j].id) /\ l[i].id > l[j].id)
     /\ Range(getFavoriteIds) = {}
          => [i \in DOMAIN l |-> l[i].id]
               = SelectSeq(GitLog(ListWindow), LAMBDA c : c \notin Range(getDeletedIds))

\* three checkpoints, the middle one favorited: listed as 2, 3, 1
C12_Witness ==
  /\ Len(listSnapshots) = 3
  /\ listSnapshots[1].id = 2 /\ listSnapshots[1].isFavorite
  /\ listSnapshots[2].id = 3 /\ ~listSnapshots[2].isFavorite
  /\ listSnapshots[3].id = 1 /\ ~listSnapshots[3].isFavorite

\* the listed checkpoints a cleanup run has to tombstone
Expired(retentionDays, now) ==
  LET l == listSnapshots
  IN {l[i].id : i \in {k \in DOMAIN l :
                          ~l[k].isFavorite /\ l[k].timestamp < now - retentionDays}}

\* C13: deleteOldSnapshots(retentionDays) adds to .deleted exactly the listed
\* checkpoints that are not favorited and whose timestamp is strictly older
\* than now - retentionDays, no favorited one and none at or after the cutoff,
\* and returns the number it tombstoned.
C13_RetentionCleanup ==
  [][last'.op = "deleteOldSnapshots" =>
       LET expired == Expired(last'.args.retentionDays, last'.args.now)
           tombstoned == {id \in Range(deletedFile'.lines) : id # EmptyLine}
       IN /\ last'.status = "returned"
          /\ tombstoned = Range(getDeletedIds) \cup expired
          /\ expired \cap Range(getDeletedIds) = {}
          /\ last'.ret = Cardinality(expired)]_vars

\* a run that tombstoned one checkpoint and left an older favorite and a
\* checkpoint at the cutoff listed
C13_Witness ==
  /\ last.op = "deleteOldSnapshots"
  /\ last.ret = 1
  /\ \E i, j \in DOMAIN listSnapshots :
       /\ listSnapshots[i].isFavorite
       /\ listSnapshots[i].timestamp < last.args.now - last.args.retentionDays
       /\ ~listSnapshots[j].isFavorite
       /\ listSnapshots[j].timestamp = last.args.now - last.args.retentionDays

\* the entry of listSnapshots for the checkpoint the last call made
LastListed == listSnapshots[CHOOSE i \in DOMAIN listSnapshots : listSnapshots[i].id = last.id]

IsLastListed == \E i \in DOMAIN listSnapshots : listSnapshots[i].id = last.id

\* the origin tag in any letter case
HasOriginTag(value) == value # <<>> /\ value[1] \in ClaudeTagAnyCase

\* a branch value without its origin tag and the blanks after the tag
OriginTagStripped(value) ==
  IF HasOriginTag(value) THEN StripLeadingSpace(Tail(value)) ELSE value

\* C14: a checkpoint created with a non-empty customDescription is listed
\* with branchName = the original branchName without its origin tag and
\* description = the original customDescription, also when the description
\* spans several lines.
C14_CodecRoundTrip ==
  (last.op = "createSnapshot" /\ last.status = "returned"
     /\ last.args.customDescription # <<>>)
    => /\ IsLastListed
       /\ LastListed.branchName = OriginTagStripped(last.args.branchName)
       /\ LastListed.description = last.args.customDescription

\* the branch value the decoder finds in a commit: the value of the trailer,
\* else the left side of a legacy subject
HasBranchValue(commit) == HasTrailer(commit.body) \/ IsOldFormat(commit.message)

BranchValue(commit) ==
  IF HasTrailer(commit.body) THEN TrailerValue(commit.body) ELSE OldFormatLeft(commit.message)

\* C15: origin-tag handling is case-insensitive in both effects: when the
\* branch value (trailer value or left side of the legacy subject) starts with
\* the tag in any letter case, the origin flag is true and the tag is stripped
\* from branchName; when it does not, the flag is false and branchName is the
\* value unchanged.
C15_OriginTagAnyCase ==
  \A i \in DOMAIN listSnapshots :
    LET s == listSnapshots[i]
        commit == commits[s.id]
    IN HasBranchValue(commit) =>
         IF HasOriginTag(BranchValue(commit))
         THEN s.isClaudeCreated /\ s.branchName = OriginTagStripped(BranchValue(commit))
         ELSE ~s.isClaudeCreated /\ s.branchName = BranchValue(commit)

\* the tag as the hook writes it, or no tag
CanonicalTagOrNone(value) == HasOriginTag(value) => value[1] = ClaudeTag

C17_DecodeOrder ==
  \A id \in CommitIds :
    LET commit == commits[id]
        s == parseCommitMetadata(id)
    IN /\ s.description = <<commit.message>>
       /\ HasTrailer(commit.body)
            => /\ s.timestamp = commit.date
               /\ s.isClaudeCreated = HasOriginTag(TrailerValue(commit.body))
               /\ CanonicalTagOrNone(TrailerValue(commit.body))
                    => s.branchName = OriginTagStripped(TrailerValue(commit.body))
       /\ (~HasTrailer(commit.body) /\ ~IsOldFormat(commit.message))
            => /\ s.branchName = UnknownBranch
               /\ ~s.isClaudeCreated
               /\ s.timestamp = commit.date

\* a trailer under a subject that is a legacy subject with another date, and
\* a commit of neither format
C17_Witness ==
  /\ last.op = "externalCommit"
  /\ HasTrailer(last.args.body)
  /\ \E d \in Dates : /\ last.args.right = <<formatDate(d, DefaultDateFormat)>>
                        /\ d # commits[last.id].date
  /\ IsLastListed
  /\ LastListed.branchName = <<W("dev")>>

C17_WitnessUnknown ==
  /\ last.op = "externalCommit"
  /\ last.args.right = <<>>
  /\ last.args.left = <<W("main")>>
  /\ IsLastListed
  /\ LastListed.branchName = UnknownBranch

\* C18: the engine's identity has 12 hex characters, the same inputs give the
\* same identity, and with a non-null remote URL the identity does not depend
\* on the root path.
C18_IdentityIgnoresRoot ==
  last.op = "generateRepoIdentifier" =>
    /\ Len(last.ret) = 12
    /\ \A i \in DOMAIN last.ret : last.ret[i] \in HexDigits
    /\ \A p \in last.before :
         (/\ p.op = "generateRepoIdentifier"
          /\ p.args.remoteUrl = last.args.remoteUrl
          /\ (last.args.remoteUrl # NullUrl \/ p.args.rootPath = last.args.rootPath))
           => p.ret = last.ret

\* two engine instances for one remote URL and two roots, with one identity
C18_Witness ==
  /\ last.op = "generateRepoIdentifier"
  /\ last.args.remoteUrl = "https://github.com/user/repo.git"
  /\ \E p \in last.before : /\ p.op = "generateRepoIdentifier"
                              /\ p.args.remoteUrl = last.args.remoteUrl
                              /\ p.args.rootPath # last.args.rootPath
                              /\ p.ret = last.ret

\* the source the identity is the hash of
IdentitySource(remoteUrl, rootPath) ==
  IF remoteUrl # NullUrl /\ remoteUrl # "" THEN remoteUrl ELSE rootPath

\* C19: the engine, the hook script and the OpenCode plugin all hash the
\* remote URL when it is non-null and non-empty and the root path otherwise,
\* so for the same (remoteUrl, rootPath) they compute the same identity.
C19_SameIdentityEverywhere ==
  last.op \in IdentityOps =>
    /\ last.ret = Substring(Sha256Hex(IdentitySource(last.args.remoteUrl, last.args.rootPath)),
                            IdentityLength)
    /\ \A p \in last.before : p.args = last.args => p.ret = last.ret

\* C20: an automatic checkpoint never raises: the hook script ends with exit
\* status 0 whatever its commands met, and the plugin's chat.message handler
\* returns without throwing.
C20_AutoTriggerNeverRaises ==
  /\ hook.pc = "exited" => hook.exit = {0}
  /\ last.op = "chat.message" => last.status = "returned"

\* the hook ended after a command of its failed, and the handler's body threw
C20_Witness ==
  /\ hook.pc = "exited"
  /\ hook.env \in {"not a repository", "no origin", "mkdir fails", "git init fails"}
  /\ last.op = "chat.message"
  /\ last.args.failure \in {"init fails", "rev-parse fails"}

\* C21: with retentionDays zero or negative no run of the cleanup service
\* calls deleteOldSnapshots, and the run leaves .deleted as it was.
C21_NoCleanupWhenDisabled ==
  [][\A r \in ConfiguredRetention, s \in BOOLEAN, now \in Dates :
       (r <= 0 /\ runCleanup(r, s, now))
         => (last'.op = "runCleanup" /\ deletedFile' = deletedFile)]_vars

\* a disabled run over a listing with a checkpoint older than the run's date
C21_Witness ==
  /\ last.op = "runCleanup"
  /\ last.args.retentionDays <= 0
  /\ \E i \in DOMAIN listSnapshots :
       ~listSnapshots[i].isFavorite /\ listSnapshots[i].timestamp < last.args.now

\* the files of a checkpoint as createSnapshot captured them
CapturedFiles(id) == [f \in {g \in Files : TreeOf(id)[g] # Absent} |-> TreeOf(id)[f]]

\* C22: after deleteSnapshot(id), and after any later createSnapshot, rename,
\* favorite and cleanup operations, getSnapshotFiles(id) returns the files of
\* the tombstoned checkpoint exactly as they were captured.
C22_TombstonedFilesAsCaptured ==
  \A id \in CommitIds :
    id \in Range(getDeletedIds) => getSnapshotFiles(id) = CapturedFiles(id)

\* C23: after renameSnapshot(id, name) with a non-empty name on a listed
\* checkpoint, listSnapshots reports description = name for id, with its id,
\* branchName and timestamp as before, and .renamed holds one entry for id
\* (so a second rename replaces the first).
C23_RenameUpsertRoundTrip ==
  (last.op = "renameSnapshot" /\ last.status = "returned" /\ last.args.newName # <<>>
     /\ IsLastListed)
    => /\ LastListed.description = <<last.args.newName>>
       /\ \A b \in last.before : /\ LastListed.branchName = b.branchName
                                 /\ LastListed.timestamp = b.timestamp
       /\ Cardinality({i \in DOMAIN getRenamedMap : getRenamedMap[i].id = last.id}) = 1

\* C24: when initializeIfNeeded returns on an instance with project root R,
\* core.worktree is R whatever it was before (unset, R or another path), and
\* the commit history and the overlay files are as before the call.
C24_WorktreeRebound ==
  (last.op = "initializeIfNeeded" /\ last.status = "returned")
    => /\ coreWorktree = last.args.workspacePath
       /\ \A b \in last.before :
            /\ b.existed => (commits = b.commits /\ head = b.head)
            /\ b.overlays = <<deletedFile, renamedFile, favoritesFile>>

\* a call on a repository with history and a tombstone that was bound to the
\* other root
C24_Witness ==
  /\ last.op = "initializeIfNeeded"
  /\ commits # <<>>
  /\ deletedFile.exists
  /\ \E b \in last.before : b.existed /\ b.coreWorktree \notin {Unset, last.args.workspacePath}

\* C25: after initializeIfNeeded (alone, or at the start of createSnapshot and
\* restoreSnapshot) the exclude rules are the default list followed by the
\* patterns configured at that time.
C25_ExcludesDefaultsThenConfigured ==
  last.op \in {"initializeIfNeeded", "createSnapshot", "restoreSnapshot"}
    => /\ exclude = getDefaultExcludePatterns \o ignorePatterns
       /\ \A i \in DOMAIN getDefaultExcludePatterns : exclude[i] = getDefaultExcludePatterns[i]

\* an existing repository whose rules the call brought up to date with a
\* changed configuration
C25_Witness ==
  /\ last.op = "initializeIfNeeded"
  /\ ignorePatterns # <<>>
  /\ \E b \in last.before : b.existed /\ b.exclude # exclude
                              /\ b.exclude # getDefaultExcludePatterns

\* a step of a deleteOldSnapshots call of instance i
CleanupStep(i) ==
  \/ (calls'[i] # calls[i] /\ "deleteOldSnapshots" \in {calls[i].op, calls'[i].op})
  \/ (last'.op = "deleteOldSnapshots" /\ last'.args.instance = i)

\* the history a createSnapshot call gives when nothing runs beside it: one
\* commit on top of the history it found, of the tree git add makes
CreatedAlone(b) ==
  /\ last.args.made = Len(commits)
  /\ SubSeq(commits, 1, Len(commits) - 1) = b.commits
  /\ commits[last.args.made].parent = b.head
  /\ commits[last.args.made].tree = GitAdd(b.index, worktree, exclude)

\* C26: in every interleaving of deleteOldSnapshots with createSnapshot, no
\* step of deleteOldSnapshots changes commits, HEAD, index, core.worktree or a
\* working tree, and the history after createSnapshot is the one it would
\* have made alone.
C26_CleanupBesideCreate ==
  /\ [][\A i \in Instances :
          CleanupStep(i) => UNCHANGED <<commits, head, index, coreWorktree, worktree,
                                        worktreeB>>]_vars
  /\ []((last.op = "createSnapshot" /\ last.status = "returned")
          => \A b \in last.before : CreatedAlone(b))

\* createSnapshot returns while a cleanup that started on the older
\* checkpoints has tombstoned one and has one to go
C26_Witness ==
  /\ last.op = "createSnapshot"
  /\ last.status = "returned"
  /\ calls["B"].op = "deleteOldSnapshots"
  /\ calls["B"].made = 1

\* C27: once deleteSnapshot(id) has returned, id is never listed again, in
\* every interleaving of the calls of several instances: a tombstone that is
\* in .deleted stays in it (a checkpoint whose id leaves the file is listed
\* by the next listSnapshots).
C27_TombstonesPermanent ==
  [][\A id \in CommitIds :
       id \in Range(getDeletedIds) => id \in Range(deletedFile'.lines)]_vars

\* C30: deleteOldSnapshots never tombstones a checkpoint whose id is in
\* .favorites at the moment it tombstones it, in every interleaving with
\* toggleFavorite.
C30_FavoritesNeverAutoDeleted ==
  [][\A i \in Instances :
       (calls[i].op = "deleteOldSnapshots" /\ calls[i].pc = "write"
          /\ calls'[i] # calls[i])
         => calls[i].arg \notin Range(getFavoriteIds)]_vars


(***************************************************************************)
(* Two instances built with one remote URL and the roots A and B: one      *)
(* identity, one shadow repository, createSnapshot and restoreSnapshot of  *)
(* both step by step.  The content of a root is edited only while the      *)
(* instance of that root has no call in flight.                            *)
(***************************************************************************)
WriteFileB(f, c) ==
  /\ worktreeB[f] # c
  /\ worktreeB' = [worktreeB EXCEPT ![f] = c]
  /\ last' = NoResult
  /\ UNCHANGED <<gitVars, overlayVars, lockVars, retryVars, hook, coreWorktree,
                 ignorePatterns, service, calls>>

NextTwoRoots ==
  \/ \E c \in Contents : calls["A"].pc = "idle" /\ WriteFile("a.ts", c)
  \/ \E c \in Contents : calls["B"].pc = "idle" /\ WriteFileB("a.ts", c)
  \/ \E i \in Instances : BeginCreate(i)
  \/ \E i \in Instances : StepAdd(i)
  \/ \E i \in Instances : StepStatus(i)
  \/ \E i \in Instances : StepCommit(i, Soonest)
  \/ \E i \in Instances : StepReadBack(i)
  \/ \E i \in Instances, id \in CommitIds : BeginRestore(i, id)
  \/ \E i \in Instances : StepCleanReset(i)

SpecTwoRoots == Init /\ [][NextTwoRoots]_vars

\* C28: the Checkpoint a successful createSnapshot returns carries the id of
\* the commit this very call created, whatever another writer of the same
\* shadow repository did between its steps.
C28_ReturnsOwnCommit ==
  (last.op = "createSnapshot" /\ last.status = "returned") => last.id = last.args.made

RootTree(i) == IF i = "B" THEN worktreeB ELSE worktree

\* C29: with two instances on one shadow repository and the roots A and B,
\* the commit a createSnapshot of an instance makes holds the content of that
\* instance's root, and the clean and reset of its restoreSnapshot rewrite
\* files under that root only.
C29_EachInstanceItsOwnRoot ==
  [][\A i \in Instances :
       /\ (calls[i].pc = "commit" /\ calls'[i].pc = "readback")
            => \A f \in Files : ~IsIgnored(f, exclude)
                                  => commits'[calls'[i].made].tree[f] = RootTree(i)[f]
       /\ (calls[i].pc = "clean" /\ calls'[i].pc = "idle")
            => \A j \in Instances \ {i} : RootTree(j)' = RootTree(j)]_vars


(***************************************************************************)
(* The three creators of checkpoints on one shadow repository, in any      *)
(* order: the engine, the chat hook and the OpenCode plugin, next to the   *)
(* user editing the project (the secrets file included).                   *)
(***************************************************************************)
NextCreators ==
  \/ createSnapshot(MainBranch, <<>>, "", <<>>, Soonest, 0, 0)
  \/ (hook.pc \in {"idle", "exited"} /\ HookStart("ok"))
  \/ HookRemoveStale
  \/ HookPoll
  \/ HookRecheck
  \/ HookGitAdd
  \/ HookGitCommit(Soonest)
  \/ HookContinue
  \/ PluginChatMessage("none", Soonest)
  \/ \E f \in Files, c \in Contents : WriteFile(f, c)

SpecCreators == Init /\ [][NextCreators]_vars

\* C31: no commit of the shadow repository contains a file matching a
\* default ignore rule, in whatever order the engine, the chat hook and the
\* OpenCode plugin create the repository and add checkpoints to it.
C31_NoDefaultIgnoredFileCommitted ==
  \A id \in CommitIds, f \in Files :
    IsIgnored(f, getDefaultExcludePatterns) => TreeOf(id)[f] = Absent


\* C32: restoreSnapshot(id) with an id that names no commit raises an error
\* and leaves the working tree as it was: nothing untracked has been removed
\* when the error is raised.
C32_UnknownIdLeavesTreeUnchanged ==
  [][(last'.op = "restoreSnapshot" /\ last'.status = "threw" /\ last'.id \notin CommitIds)
       => worktree' = worktree]_vars


\* C33: in the chat hooks a commit attempt with nothing staged is a success
\* that creates no commit, runs no git commit and uses up no retry, and its
\* result differs from the failure returned when the lock never clears.
C33_NothingStagedIsSuccess ==
  [][/\ (hook.pc = "git" /\ hook.fn = "commit" /\ index = HeadTree /\ hook' # hook)
          => /\ hook'.pc = "returned"
             /\ hook'.ret = 0
             /\ hook'.attempt = hook.attempt
             /\ hook'.gitRuns = hook.gitRuns
             /\ UNCHANGED <<commits, head>>
     /\ (hook.pc = "recheck" /\ hook'.pc = "returned") => hook'.ret = 1
     /\ (last'.op = "chat.message" /\ UNCHANGED <<hook, lockVars>> /\ ~lockPresent
           /\ last'.args.failure = "none" /\ GitAdd(index, worktree, exclude) = HeadTree)
          => (UNCHANGED <<commits, head>> /\ last'.status = "returned")]_vars

C33_Witness ==
  /\ hook.pc = "returned"
  /\ hook.fn = "commit"
  /\ hook.ret = 0
  /\ hook.gitRuns = 0
  /\ head \in CommitIds
  /\ index = HeadTree


(***************************************************************************)
(* The lock-handling loops together: one call of the retry wrapper on any  *)
(* sequence of outcomes, and the chat hook next to a git process that      *)
(* takes, keeps and releases the lock at any moment.                       *)
(***************************************************************************)
InitBounds ==
  /\ repoExists = FALSE
  /\ exclude = <<>>
  /\ commits = <<>>
  /\ head = 0
  /\ index = EmptyTree
  /\ worktree = [f \in Files |-> IF f = "a.ts" THEN "v1" ELSE Absent]
  /\ deletedFile = NoFile
  /\ renamedFile = NoFile
  /\ favoritesFile = NoFile
  /\ lockPresent = FALSE
  /\ lockAge = 0
  /\ last = NoResult
  /\ retryIn \in [pending : {TRUE},
                  outcomes : [1..DefaultMaxRetries -> Outcomes],
                  maxRetries : {DefaultMaxRetries},
                  delayMs : {DefaultDelayMs}]
  /\ retryOut = NoRetryOut
  /\ hook = IdleHook
  /\ coreWorktree = Unset
  /\ ignorePatterns = <<>>
  /\ service = NoService
  /\ worktreeB = EmptyTree
  /\ calls = NoCalls

NextBounds ==
  \/ RunRetry
  \/ HookStart("ok")
  \/ HookRemoveStale
  \/ HookPoll
  \/ HookRecheck
  \/ HookGitAdd
  \/ HookGitCommit(Soonest)
  \/ HookContinue
  \/ LockAcquire
  \/ LockRelease
  \/ Tick

SpecBounds == InitBounds /\ [][NextBounds]_vars

\* what is left of safe_git_add and safe_git_commit at most: the rounds of
\* the for loop, and within a round the polls of the lock wait
HookStage(h) ==
  CASE h.pc = "remove_stale" -> HookMaxPolls + 4
    [] h.pc = "poll" -> (HookMaxPolls - h.polls) + 3
    [] h.pc = "recheck" -> 2
    [] h.pc = "git" -> 1
    [] OTHER -> 0

HookRemaining(h) ==
  (IF h.fn = "add" THEN HookMaxAttempts * (HookMaxPolls + 5) ELSE 0)
    + (HookMaxAttempts - h.attempt) * (HookMaxPolls + 5) + HookStage(h)

\* C34: every lock-handling loop ends within its bound whatever the lock
\* and git do: the retry wrapper invokes the operation at most 3 times and
\* ends with a result or an error; the hook polls at most 6 times per
\* attempt and runs git at most 3 times per function, and every step of the
\* hook brings it nearer to its return.
C34_LoopsBounded ==
  /\ [](/\ retryOut.invocations <= DefaultMaxRetries
        /\ ~retryIn.pending => retryOut.status \in {"returned", "threw"}
        /\ hook.polls <= HookMaxPolls
        /\ hook.attempt <= HookMaxAttempts
        /\ hook.gitRuns <= HookMaxAttempts)
  /\ [][(hook' # hook /\ hook.pc \notin {"idle", "exited"} /\ hook'.pc # "exited")
          => HookRemaining(hook') < HookRemaining(hook)]_vars

C34_Witness ==
  /\ retryOut.invocations = DefaultMaxRetries
  /\ retryOut.status = "threw"
  /\ hook.pc = "returned"
  /\ hook.ret = 1
  /\ hook.gitRuns = HookMaxAttempts
  /\ hook.polls = HookMaxPolls


\* the three overlay operations on any overlay files, with names of one word
\* and names holding a tab or a newline
NextFrame ==
  \/ \E id \in OverlayIds : deleteSnapshot(id)
  \/ \E id \in OverlayIds, n \in RenameInputs : renameSnapshot(id, n)
  \/ \E id \in OverlayIds : toggleFavorite(id)

SpecFrame == InitOverlay /\ [][NextFrame]_vars

DisplayNameOf(id) == RenamedGet(getRenamedMap, id)

IsFavoriteId(id) == id \in Range(getFavoriteIds)

IsDeletedId(id) == id \in Range(getDeletedIds)

\* C35: deleteSnapshot, toggleFavorite and renameSnapshot each change their
\* own overlay only and, in it, the entry of their own id only: for every
\* name, the display names, favorite flags and tombstones of all other ids
\* are as before the call, and so are the history and the working tree.
C35_OverlayFrame ==
  [][(last'.op \in {"deleteSnapshot", "toggleFavorite", "renameSnapshot"}
        /\ last'.status = "returned")
       => /\ UNCHANGED <<commits, head, index, worktree>>
          /\ last'.op = "deleteSnapshot" => UNCHANGED <<renamedFile, favoritesFile>>
          /\ last'.op = "toggleFavorite" => UNCHANGED <<deletedFile, renamedFile>>
          /\ last'.op = "renameSnapshot" => UNCHANGED <<deletedFile, favoritesFile>>
          /\ \A id \in OverlayIds \ {last'.id} :
               /\ DisplayNameOf(id)' = DisplayNameOf(id)
               /\ IsFavoriteId(id)' = IsFavoriteId(id)
               /\ IsDeletedId(id)' = IsDeletedId(id)]_vars


\* retention cleanup over checkpoints created with the default date format
\* and with a date format that has no year
NextRetention ==
  \/ \E now \in Now, f \in {DefaultDateFormat, YearlessDateFormat} :
       createSnapshot(MainBranch, <<>>, f, <<>>, now, 0, 0)
  \/ \E r \in 1..MaxRetention, now \in Now : deleteOldSnapshots(r, now) /\ UNCHANGED service
  \/ \E c \in Contents : WriteFile("a.ts", c)

SpecRetention == Init /\ [][NextRetention]_vars

\* C36: deleteOldSnapshots(retentionDays) with retentionDays > 0 tombstones
\* no checkpoint whose commit was created less than retentionDays ago,
\* whatever date format the checkpoint was created with: every checkpoint a
\* run adds to .deleted was committed at or before now - retentionDays.
C36_RetentionByCaptureTime ==
  [][(last'.op = "deleteOldSnapshots" /\ last'.args.retentionDays > 0)
       => \A id \in CommitIds :
            (id \in Range(deletedFile'.lines) /\ id \notin Range(deletedFile.lines))
              => commits[id].date <= last'.args.now - last'.args.retentionDays]_vars


\* the prompts of the user: none, one line, several lines, with " @ " and
\* with a line that reads like a branch trailer
UserPrompts ==
  Bodies \cup { << <<W("fix")>>, <<>>, <<W("a"), Space, At, Space, W("b")>> >> }

NextPrompt ==
  \/ \E p \in UserPrompts, now \in Now : HookCheckpoint(p, now)
  \/ \E c \in Contents : WriteFile("a.ts", c)

SpecPrompt == Init /\ [][NextPrompt]_vars

\* C37: every checkpoint the Claude hook commits, whatever the prompt in its
\* body, is listed with the origin flag true and the branch of its subject.
C37_HookCheckpointDecoded ==
  (last.op = "save-checkpoint" /\ last.status = "returned")
    => \E s \in Range(listSnapshots) :
         /\ s.id = last.id
         /\ s.isClaudeCreated
         /\ s.branchName = HookBranch


\* the cleanup service started and stopped in any order, its timers firing
NextService ==
  \/ \E r \in RetentionInputs, now \in Now : ServiceStart(r, TRUE, now)
  \/ ServiceStop
  \/ \E h \in 1..MaxStarts, r \in RetentionInputs, now \in Now : TimerFires(h, r, TRUE, now)
  \/ createSnapshot(MainBranch, <<>>, "", <<>>, Soonest, 0, 0)
  \/ \E c \in Contents : WriteFile("a.ts", c)

SpecService == Init /\ [][NextService]_vars

\* C38: after stop() has returned, and until the next start(), no run is
\* started by a timer, for every sequence of start() and stop() calls.
C38_NoTimerRunAfterStop ==
  [][service'.callbacks # service.callbacks => ~service.stopped]_vars


\* checkpoints of the engine and of the hook restored by the engine and by
\* the plugin
NextRestore ==
  \/ createSnapshot(MainBranch, <<>>, "", <<>>, Soonest, 0, 0)
  \/ HookCheckpoint(<<>>, Soonest)
  \/ \E id \in 1..MaxCommits : restoreSnapshot(id, 0)
  \/ \E id \in 1..MaxCommits : PluginRestore(id)
  \/ \E c \in Contents : WriteFile("a.ts", c)
  \/ \E c \in {"v1", Absent} : WriteFile(".env", c)

SpecRestore == Init /\ [][NextRestore]_vars

\* the working tree and the listed ids the engine's restoreSnapshot(id) leaves
EngineRestoreTree(id) ==
  GitResetHardTree(index, GitClean(index, worktree, writeExcludePatterns(ignorePatterns)),
                   TreeOf(id))

EngineRestoreListed(id) == {c \in Range(LogFrom(id)) : c \notin Range(getDeletedIds)}

\* C39: for every existing checkpoint id and every working tree, the plugin
\* restore leaves the working tree as the engine's restoreSnapshot(id) would
\* (files absent from the checkpoint removed) and the same checkpoints listed.
C39_PluginRestoreAsEngine ==
  [][(last'.op = "restore-checkpoint" /\ last'.id \in CommitIds)
       => /\ last'.status = "returned"
          /\ worktree' = EngineRestoreTree(last'.id)
          /\ ListedIds' = EngineRestoreListed(last'.id)]_vars

====
